---- MODULE Spec2Model ----
(***************************************************************************)
(* The session-scoped telemetry and report-synthesis pipeline of the       *)
(* interview assistant: the browser tab (session identity, code editor,    *)
(* debounced webhook sender, delivery status), the webhook endpoint with   *)
(* its in-memory store, and the report pipeline with the generate-report   *)
(* endpoint's response extraction.                                         *)
(*                                                                         *)
(* The specifications share the definitions:                               *)
(*   Spec           one tab editing and delivering to the webhook endpoint  *)
(*   SpecLive       the same tab under the event loop's scheduling          *)
(*   SpecStore      arbitrary clients calling the webhook endpoint          *)
(*   SpecSend       arbitrary callers of sendCodeUpdate                     *)
(*   SpecTranscript arbitrary clients calling the transcript endpoint       *)
(*   SpecReport     the report page and the endpoints it calls              *)
(*                                                                         *)
(* Time is the wall clock in milliseconds.  Session ids, timer ids and      *)
(* timestamps are numbers; text values are strings; a generator response    *)
(* is a sequence of characters.                                             *)
(***************************************************************************)
EXTENDS Integers, Sequences, FiniteSets, TLC

VARIABLES
    now,             \* wall clock, ms
    page,            \* which page of the tab is mounted: "closed" | "home" | "report"
    sessionStorage,  \* sessionStorage[SESSION_KEY], or NoSession
    sessionCall,     \* the last call of a function of lib/session and what it returned
    nextSid,         \* next id generateSessionId will return
    sessionIdRef,    \* CodeEditor: sessionIdRef.current
    code,            \* CodeEditor: code state
    language,        \* CodeEditor: language state
    webhookStatus,   \* CodeEditor: webhookStatus state
    enabled,         \* webhookConfig.enabled
    clientKey,       \* webhookConfig.headers['X-API-Key']
    timeoutId,       \* createDebouncedWebhook: the closure's timeoutId
    timers,          \* the tab's pending setTimeout timers
    nextTimer,       \* next timer id setTimeout will return
    effectTimers,    \* ids the editor effect's cleanup will clear
    edits,           \* number of edits made so far
    calls,           \* log of the calls of the debounced function
    sends,           \* log of the invocations of sendCodeUpdate
    codeStore,       \* server: codeStore, session id -> StoredCode or NoEntry
    expectedKey,     \* server: process.env.WEBHOOK_API_KEY ("" when not configured)
    accepted,        \* log of the POSTs answered 200, in arrival order
    resp,            \* the last response the webhook endpoint gave
    req,             \* the request it answered, and the store as it was before
    anthropicApiKey, \* server: whether process.env.ANTHROPIC_API_KEY is set
    elevenLabsApiKey,\* server: whether process.env.ELEVEN_LABS_API_KEY is set
    tx,              \* the last exchange of the transcript endpoint
    gx,              \* the last exchange of the generate-report endpoint
    rp               \* ReportPage state

clientVars == <<page, sessionStorage, sessionCall, nextSid, sessionIdRef, code, language,
                webhookStatus, enabled, clientKey, timeoutId, timers, nextTimer,
                effectTimers, edits, calls, sends>>
serverVars == <<codeStore, expectedKey, accepted, resp, req, anthropicApiKey,
                elevenLabsApiKey, tx, gx>>
vars == <<now, clientVars, serverVars, rp>>

----------------------------------------------------------------------------
(* Bounds of the model *)

MaxTicks == 8
MaxEdits == 2
MaxSessions == 2
MaxPosts == 2
MaxStoreTicks == 1
MaxSends == 2

----------------------------------------------------------------------------
(* Values *)

NoSession == 0
\* the empty string, as a session id
EmptySessionId == 0 - 2
NoTimer == 0
NoTime == 0 - 1
Absent == "undefined"

WEBHOOK_DEBOUNCE_DELAY == 2000
InitialCode == "function twoSum"
EditorCodes == {"", "return [0,1]"}
Languages == {"javascript", "python"}
Delays == {500}

Min(S) == CHOOSE x \in S : \A y \in S : x <= y
Max(S) == CHOOSE x \in S : \A y \in S : x >= y

----------------------------------------------------------------------------
(* The webhook endpoint: /api/webhook/code-update                          *)
(*                                                                         *)
(* A request body is a record of its five fields; a field the JSON does    *)
(* not carry is Absent (NoTime, NoSession), and malformed marks a body     *)
(* that is not JSON at all.  An API key header that is not sent is Absent. *)

EmptyStore == [k \in {} |-> 0]

\* JavaScript's !v for a text field
FalsyMutAbsentOnly(v) == v = Absent
Falsy(v) == v \in {Absent, ""}

\* the StoredCode object literal built by POST
StoredCodeMutLastUpdated(body, clock) ==
    [code |-> body.code, language |-> body.language, timestamp |-> body.timestamp,
     userId |-> body.userId, lastUpdated |-> body.timestamp]
StoredCode(body, clock) ==
    [code |-> body.code, language |-> body.language, timestamp |-> body.timestamp,
     userId |-> body.userId, lastUpdated |-> clock]

\* codeStore.set(sessionId, entry)
CodeStoreSetMutNewest(store, sid, entry) ==
    IF sid \in DOMAIN store /\ store[sid].timestamp > entry.timestamp
    THEN store
    ELSE [k \in DOMAIN store \cup {sid} |-> IF k = sid THEN entry ELSE store[k]]
CodeStoreSetMutMerge(store, sid, entry) ==
    [k \in DOMAIN store \cup {sid} |->
        IF k # sid THEN store[k]
        ELSE IF sid \in DOMAIN store /\ entry.userId = Absent
             THEN [entry EXCEPT !.userId = store[sid].userId]
             ELSE entry]
CodeStoreSetMutEvict(store, sid, entry) == [k \in {sid} |-> entry]
CodeStoreSet(store, sid, entry) ==
    [k \in DOMAIN store \cup {sid} |-> IF k = sid THEN entry ELSE store[k]]

\* the API key check shared by POST and GET
UnauthorizedMutAbsentOk(expected, apiKey) ==
    expected # "" /\ apiKey # Absent /\ apiKey # expected
Unauthorized(expected, apiKey) == expected # "" /\ apiKey # expected

Response(op, status) ==
    [op |-> op, status |-> status, success |-> status = 200, sessionId |-> NoSession,
     code |-> Absent, language |-> Absent, timestamp |-> NoTime, userId |-> Absent,
     lastUpdated |-> NoTime, sessions |-> {}, totalSessions |-> 0]

\* POST: the response and the store it leaves
POSTMutStoreFirst(store, expected, apiKey, body, clock) ==
    IF Unauthorized(expected, apiKey)
    THEN [response |-> Response("POST", 401), store |-> store]
    ELSE IF body.malformed
    THEN [response |-> Response("POST", 500), store |-> store]
    ELSE IF body.sessionId = NoSession
    THEN [response |-> Response("POST", 400), store |-> store]
    ELSE IF Falsy(body.code) \/ Falsy(body.language) \/ body.timestamp = NoTime
    THEN [response |-> Response("POST", 400),
          store |-> CodeStoreSet(store, body.sessionId, StoredCode(body, clock))]
    ELSE [response |-> [Response("POST", 200) EXCEPT !.sessionId = body.sessionId,
                                                      !.timestamp = clock],
          store |-> CodeStoreSet(store, body.sessionId, StoredCode(body, clock))]
POSTMutParseFirst(store, expected, apiKey, body, clock) ==
    IF body.malformed
    THEN [response |-> Response("POST", 500), store |-> store]
    ELSE IF Falsy(body.code) \/ Falsy(body.language) \/ body.timestamp = NoTime
            \/ body.sessionId = NoSession
    THEN [response |-> Response("POST", 400), store |-> store]
    ELSE IF Unauthorized(expected, apiKey)
    THEN [response |-> Response("POST", 401), store |-> store]
    ELSE [response |-> [Response("POST", 200) EXCEPT !.sessionId = body.sessionId,
                                                      !.timestamp = clock],
          store |-> CodeStoreSet(store, body.sessionId, StoredCode(body, clock))]
POST(store, expected, apiKey, body, clock) ==
    IF Unauthorized(expected, apiKey)
    THEN [response |-> Response("POST", 401), store |-> store]
    ELSE IF body.malformed
    THEN [response |-> Response("POST", 500), store |-> store]
    ELSE IF Falsy(body.code) \/ Falsy(body.language) \/ body.timestamp = NoTime
            \/ body.sessionId = NoSession
    THEN [response |-> Response("POST", 400), store |-> store]
    ELSE [response |-> [Response("POST", 200) EXCEPT !.sessionId = body.sessionId,
                                                      !.timestamp = clock],
          store |-> CodeStoreSet(store, body.sessionId, StoredCode(body, clock))]

\* OPTIONS
OPTIONS == Response("OPTIONS", 200)

\* GET: the response; sid = NoSession when the query has no sessionId
GETMutRequestedId(store, expected, apiKey, sid) ==
    IF sid = NoSession
    THEN [Response("GET", 200) EXCEPT !.success = FALSE,
                                      !.totalSessions = Cardinality(DOMAIN store),
                                      !.sessions = DOMAIN store]
    ELSE IF Unauthorized(expected, apiKey)
    THEN Response("GET", 401)
    ELSE IF sid \notin DOMAIN store
    THEN [Response("GET", 404) EXCEPT !.sessions = DOMAIN store \cup {sid}]
    ELSE [Response("GET", 200) EXCEPT !.sessionId = sid,
                                      !.code = store[sid].code,
                                      !.language = store[sid].language,
                                      !.timestamp = store[sid].timestamp,
                                      !.userId = store[sid].userId,
                                      !.lastUpdated = store[sid].lastUpdated]
GETMutIndexNeedsKey(store, expected, apiKey, sid) ==
    IF Unauthorized(expected, apiKey)
    THEN Response("GET", 401)
    ELSE IF sid = NoSession
    THEN [Response("GET", 200) EXCEPT !.success = FALSE,
                                      !.totalSessions = Cardinality(DOMAIN store),
                                      !.sessions = DOMAIN store]
    ELSE IF sid \notin DOMAIN store
    THEN [Response("GET", 404) EXCEPT !.sessions = DOMAIN store]
    ELSE [Response("GET", 200) EXCEPT !.sessionId = sid,
                                      !.code = store[sid].code,
                                      !.language = store[sid].language,
                                      !.timestamp = store[sid].timestamp,
                                      !.userId = store[sid].userId,
                                      !.lastUpdated = store[sid].lastUpdated]
GET(store, expected, apiKey, sid) ==
    IF sid = NoSession
    THEN [Response("GET", 200) EXCEPT !.success = FALSE,
                                      !.totalSessions = Cardinality(DOMAIN store),
                                      !.sessions = DOMAIN store]
    ELSE IF Unauthorized(expected, apiKey)
    THEN Response("GET", 401)
    ELSE IF sid \notin DOMAIN store
    THEN [Response("GET", 404) EXCEPT !.sessions = DOMAIN store]
    ELSE [Response("GET", 200) EXCEPT !.sessionId = sid,
                                      !.code = store[sid].code,
                                      !.language = store[sid].language,
                                      !.timestamp = store[sid].timestamp,
                                      !.userId = store[sid].userId,
                                      !.lastUpdated = store[sid].lastUpdated]

\* a request to the endpoint: its method, X-API-Key header, body (POST) and sessionId
\* parameter (GET), with the store as the handler found it
Request(op, apiKey, body, sid, store) ==
    [op |-> op, apiKey |-> apiKey, body |-> body, sid |-> sid, before |-> store]

\* the server handles one POST: store, log of accepted POSTs, last response
HandlePost(apiKey, body) ==
    LET r == POST(codeStore, expectedKey, apiKey, body, now) IN
    /\ codeStore' = r.store
    /\ resp' = r.response
    /\ req' = Request("POST", apiKey, body, NoSession, codeStore)
    /\ accepted' = IF r.response.status = 200
                   THEN Append(accepted, [body |-> body, at |-> now])
                   ELSE accepted
    /\ UNCHANGED <<expectedKey, anthropicApiKey, elevenLabsApiKey, tx, gx>>

----------------------------------------------------------------------------
(* The tab: session identity, CodeEditor, debounced sender, delivery       *)
(*                                                                         *)
(* A timer is [id, due, kind, payload, call]: kind "debounce" is the timer *)
(* of createDebouncedWebhook, "sending", "sent" and "idle" are the three   *)
(* status timers of the editor's effect; call is the index in calls of the *)
(* debouncer call that set a debounce timer.  The event loop runs a timer  *)
(* whose due time has come before it takes an event that arrives at or     *)
(* after that time, and never runs a timer early.                          *)

\* lib/session, in the browser: each function as the id it returns (NoSession for
\* null or nothing) and the value it leaves under SESSION_KEY; fresh is the id
\* generateSessionId would return
GetOrCreateSessionIdMutAlwaysNew(stored, fresh) ==
    [id |-> fresh, stored |-> fresh, generated |-> TRUE]
GetOrCreateSessionId(stored, fresh) ==
    IF stored \in {NoSession, EmptySessionId}
    THEN [id |-> fresh, stored |-> fresh, generated |-> TRUE]
    ELSE [id |-> stored, stored |-> stored, generated |-> FALSE]
\* getSessionId
GetSessionId(stored) == stored
ClearSessionId(stored) == NoSession
SetSessionId(stored, sessionId) == sessionId

\* a call of one of them: the function, what was stored before, what it returned
SessionCall(op, before, id) == [op |-> op, before |-> before, id |-> id]
NoSessionCall == SessionCall("none", NoSession, NoSession)

Horizon == MaxTicks * 500

NoPayload == [malformed |-> FALSE, code |-> Absent, language |-> Absent,
              timestamp |-> NoTime, sessionId |-> NoSession, userId |-> Absent]

\* CodeEditor's effect: the WebhookPayload literal
Payload(c, l, sid, clock) ==
    [malformed |-> FALSE, code |-> c, language |-> l, timestamp |-> clock,
     sessionId |-> sid, userId |-> Absent]

\* the id the editor puts in its payloads: useRef(generateSessionId())
EditorSessionId(fresh, stored) == fresh

\* clearTimeout(id) on the tab's timers
ClearTimeout(ts, ids) == {t \in ts : t.id \notin ids}

\* the cleanup of the editor's effect, which also runs when the editor unmounts: it
\* clears the three status timers of the last run (ids); tid is the debouncer's timer
EffectCleanupMutCancelsDebounce(ts, ids, tid) == ClearTimeout(ts, ids \cup {tid})
EffectCleanup(ts, ids, tid) == ClearTimeout(ts, ids)

\* createDebouncedWebhook: if (timeoutId) clearTimeout(timeoutId)
DebounceResetMutKeep(ts, tid) == ts
DebounceReset(ts, tid) == IF tid # NoTimer THEN ClearTimeout(ts, {tid}) ELSE ts

\* the payload the debounce timer's callback passes to sendCodeUpdate
FiredPayloadMutFirst(t) == calls[1].payload
FiredPayload(t) == t.payload

DueTimers == {t \in timers : t.due <= now}
\* the timer the event loop runs next: earliest due, then earliest set
NextTimer ==
    CHOOSE t \in DueTimers :
        \A u \in DueTimers : t.due < u.due \/ (t.due = u.due /\ t.id <= u.id)

\* the three status timers the effect sets: sendingTimer, sentTimer, idleTimer
StatusTimersMutNoIdle(id, clock) ==
    {[id |-> id, due |-> clock, kind |-> "sending", payload |-> NoPayload, call |-> 0],
     [id |-> id + 1, due |-> clock + WEBHOOK_DEBOUNCE_DELAY + 500, kind |-> "sent",
      payload |-> NoPayload, call |-> 0]}
StatusTimers(id, clock) ==
    {[id |-> id, due |-> clock, kind |-> "sending", payload |-> NoPayload, call |-> 0],
     [id |-> id + 1, due |-> clock + WEBHOOK_DEBOUNCE_DELAY + 500, kind |-> "sent",
      payload |-> NoPayload, call |-> 0],
     [id |-> id + 2, due |-> clock + WEBHOOK_DEBOUNCE_DELAY + 1500, kind |-> "idle",
      payload |-> NoPayload, call |-> 0]}

\* CodeEditor's effect on [code, language]: the previous run's cleanup, then the
\* body with the new code c and language l
EditorEffect(c, l, sid) ==
    LET payload == Payload(c, l, sid, now)
        cleaned == EffectCleanup(timers, effectTimers, timeoutId)
        id      == nextTimer
    IN  IF ~enabled
        THEN /\ timers' = cleaned
             /\ effectTimers' = {}
             /\ UNCHANGED <<timeoutId, nextTimer, calls>>
        ELSE /\ timers' = DebounceReset(cleaned, timeoutId) \cup
                   {[id |-> id, due |-> now + WEBHOOK_DEBOUNCE_DELAY, kind |-> "debounce",
                     payload |-> payload, call |-> Len(calls) + 1]}
                   \cup StatusTimers(id + 1, now)
             /\ timeoutId' = id
             /\ nextTimer' = id + 4
             /\ effectTimers' = {id + 1, id + 2, id + 3}
             /\ calls' = Append(calls, [at |-> now, payload |-> payload])

\* The Home page mounts: CodeEditor renders and runs its effect, then Home's
\* effect calls getOrCreateSessionId
OpenHome ==
    /\ page = "closed"
    /\ page' = "home"
    /\ sessionIdRef' = EditorSessionId(nextSid, sessionStorage)
    /\ code' = InitialCode
    /\ language' = "javascript"
    /\ EditorEffect(InitialCode, "javascript", sessionIdRef')
    /\ LET g == GetOrCreateSessionId(sessionStorage, nextSid + 1) IN
        /\ sessionStorage' = g.stored
        /\ sessionCall' = SessionCall("getOrCreateSessionId", sessionStorage, g.id)
        /\ nextSid' = IF g.generated THEN nextSid + 2 ELSE nextSid + 1
    /\ UNCHANGED <<now, webhookStatus, enabled, clientKey, edits, sends, serverVars, rp>>

\* handleEditorChange / handleReset: setCode(c) with a changed value
Edit(c) ==
    /\ page = "home"
    /\ DueTimers = {}
    /\ edits < MaxEdits
    /\ c # code
    /\ code' = c
    /\ edits' = edits + 1
    /\ EditorEffect(c, language, sessionIdRef)
    /\ UNCHANGED <<now, page, sessionStorage, sessionCall, nextSid, sessionIdRef, language, webhookStatus,
                   enabled, clientKey, sends, serverVars, rp>>

\* the language select: setLanguage(l) with a changed value
SetLanguage(l) ==
    /\ page = "home"
    /\ DueTimers = {}
    /\ edits < MaxEdits
    /\ l # language
    /\ language' = l
    /\ edits' = edits + 1
    /\ EditorEffect(code, l, sessionIdRef)
    /\ UNCHANGED <<now, page, sessionStorage, sessionCall, nextSid, sessionIdRef, code, webhookStatus,
                   enabled, clientKey, sends, serverVars, rp>>

\* webhookConfig: url is NEXT_PUBLIC_WEBHOOK_URL or, by default, this application's
\* own endpoint, so it is never empty
WebhookUrl == "/api/webhook/code-update"
WebhookConfig == [enabled |-> enabled, url |-> WebhookUrl]

\* sendCodeUpdate(payload, config) up to its fetch: the log entry of the invocation.
\* requested is whether a network request is issued
StartSend(call, payload, config, clock) ==
    [call |-> call, payload |-> payload, at |-> clock,
     requested |-> config.enabled /\ config.url # "",
     arrived |-> FALSE, status |-> 0, json |-> FALSE, done |-> NoTime,
     outcome |-> IF config.enabled /\ config.url # "" THEN "pending" ELSE "false"]
SendCodeUpdate(t) == StartSend(t.call, FiredPayload(t), WebhookConfig, now)

\* how a fetch settles: it rejects, or it resolves with a response that has a status
\* and a body that is JSON or not
FetchRejects == [kind |-> "rejects", status |-> 0, json |-> FALSE]
FetchResponse(status, json) == [kind |-> "response", status |-> status, json |-> json]
Ok(status) == status \in 200..299

\* the value sendCodeUpdate returns once its fetch has settled: false from the catch
\* (fetch or response.json() threw) and for !response.ok, true otherwise
SendResult(r) ==
    IF r.kind = "response" /\ Ok(r.status) /\ r.json THEN "true" ELSE "false"

\* sendCodeUpdate after its fetch has settled with r, as a change of the tab's send log
\* and configuration: the invocation gets its result and nothing else happens
SettleMutRetry(tab, k, r, clock) ==
    LET ss == [tab.sends EXCEPT ![k].arrived = r.kind = "response", ![k].status = r.status,
                                ![k].json = r.json, ![k].done = clock,
                                ![k].outcome = SendResult(r)]
    IN  [tab EXCEPT !.sends = IF SendResult(r) = "false" /\ Len(ss) < 4
                              THEN Append(ss, [tab.sends[k] EXCEPT !.at = clock])
                              ELSE ss]
SettleMutDisable(tab, k, r, clock) ==
    [tab EXCEPT !.sends[k].arrived = r.kind = "response", !.sends[k].status = r.status,
                !.sends[k].json = r.json, !.sends[k].done = clock,
                !.sends[k].outcome = SendResult(r),
                !.enabled = tab.enabled /\ SendResult(r) = "true"]
Settle(tab, k, r, clock) ==
    [tab EXCEPT !.sends[k].arrived = r.kind = "response", !.sends[k].status = r.status,
                !.sends[k].json = r.json, !.sends[k].done = clock,
                !.sends[k].outcome = SendResult(r)]

\* the event loop runs the next due timer
TimerFire ==
    /\ DueTimers # {}
    /\ LET t == NextTimer IN
        /\ timers' = timers \ {t}
        /\ IF t.kind = "debounce"
           THEN /\ sends' = Append(sends, SendCodeUpdate(t))
                /\ UNCHANGED webhookStatus
           ELSE /\ webhookStatus' = t.kind
                /\ UNCHANGED sends
    /\ UNCHANGED <<now, page, sessionStorage, sessionCall, nextSid, sessionIdRef, code, language, enabled,
                   clientKey, timeoutId, nextTimer, effectTimers, edits, calls, serverVars, rp>>

\* time passes, never beyond the next timer's due time
Advance(d) ==
    /\ page # "closed"
    /\ DueTimers = {}
    /\ now + d <= Horizon
    /\ \A t \in timers : now + d <= t.due
    /\ now' = now + d
    /\ UNCHANGED <<clientVars, serverVars, rp>>

\* the request of send k reaches the server, which handles it and answers with a JSON
\* body, and sendCodeUpdate resumes with the response
Deliver(k) ==
    /\ sends[k].requested /\ ~sends[k].arrived /\ sends[k].outcome = "pending"
    /\ HandlePost(clientKey, sends[k].payload)
    /\ LET tab == Settle([sends |-> sends, enabled |-> enabled], k,
                         FetchResponse(resp'.status, TRUE), now)
       IN  sends' = tab.sends /\ enabled' = tab.enabled
    /\ UNCHANGED <<now, page, sessionStorage, sessionCall, nextSid, sessionIdRef, code, language,
                   webhookStatus, clientKey, timeoutId, timers, nextTimer,
                   effectTimers, edits, calls, rp>>

\* sendCodeUpdate's fetch rejects (the request is lost): catch, return false
NetworkError(k) ==
    /\ sends[k].outcome = "pending"
    /\ LET tab == Settle([sends |-> sends, enabled |-> enabled], k, FetchRejects, now)
       IN  sends' = tab.sends /\ enabled' = tab.enabled
    /\ UNCHANGED <<now, page, sessionStorage, sessionCall, nextSid, sessionIdRef, code, language,
                   webhookStatus, clientKey, timeoutId, timers, nextTimer,
                   effectTimers, edits, calls, serverVars, rp>>

----------------------------------------------------------------------------
(* The generate-report endpoint: /api/generate-report                      *)
(*                                                                         *)
(* A text is a sequence of characters.  The characters that matter are     *)
(* the backtick, the letters of "json", the braces, the space and the      *)
(* newline; "x" is any other character of prose.  Inside a JSON object an  *)
(* upper-case letter stands for one member with a scalar or array value:   *)
(*   S summary   T strengths   I areasForImprovement                       *)
(*   R recommendation, one of Strong Hire, Hire, Maybe, No Hire            *)
(*   Q recommendation, any other text   W recommendationReasoning          *)
(*   G the key grades, whose value is the object that follows it           *)
(*   C codingSkills, M communication, A algorithmicThinking, each with an  *)
(*     integer score in 1..10 and a feedback                               *)
(*   Z algorithmicThinking with score 0, E with score 11, H with score 7.5 *)
(* NL is the newline character and BT the backtick; Fence is the three     *)
(* backticks that open or close a fenced block.                            *)

PreviewLen == 1000

NL == "LF"
WS == {" ", NL}
BT == "BT"
Fence == <<BT, BT, BT>>
JsonTag == <<"j", "s", "o", "n">>
ObjectKeys == {"G"}
ScalarMembers == {"S", "T", "I", "R", "Q", "W", "C", "M", "A", "Z", "E", "H"}

\* s occurs in txt at position p
At(txt, p, s) == p >= 1 /\ p + Len(s) - 1 <= Len(txt) /\ SubSeq(txt, p, p + Len(s) - 1) = s

\* responseText.match(/<Fence><tag>\s*\n([\s\S]*?)\n<Fence>/).  In a match that starts
\* at p, n is the newline that ends the opening line and e the newline before the
\* closing fence; the captured group is txt[n+1 .. e-1]
CloseEnds(txt, n) == {e \in (n + 1)..Len(txt) : txt[e] = NL /\ At(txt, e + 1, Fence)}
OpenEnds(txt, tag, p) ==
    IF ~At(txt, p, Fence \o tag) THEN {}
    ELSE {n \in (p + Len(Fence) + Len(tag))..Len(txt) :
            /\ txt[n] = NL
            /\ \A i \in (p + Len(Fence) + Len(tag))..(n - 1) : txt[i] \in WS
            /\ CloseEnds(txt, n) # {}}
FenceStarts(txt, tag) == {p \in 1..Len(txt) : OpenEnds(txt, tag, p) # {}}

\* the match the regular expression engine returns: leftmost start, longest \s*,
\* shortest group
FenceGroup(txt, n) == SubSeq(txt, n + 1, Min(CloseEnds(txt, n)) - 1)
FenceMatch(txt, tag) ==
    IF FenceStarts(txt, tag) = {} THEN [matched |-> FALSE, group |-> <<>>]
    ELSE [matched |-> TRUE,
          group |-> FenceGroup(txt, Max(OpenEnds(txt, tag, Min(FenceStarts(txt, tag)))))]

\* String.prototype.trim
RECURSIVE TrimLeft(_)
TrimLeft(txt) == IF txt # <<>> /\ Head(txt) \in WS THEN TrimLeft(Tail(txt)) ELSE txt
RECURSIVE TrimRight(_)
TrimRight(txt) ==
    IF txt # <<>> /\ txt[Len(txt)] \in WS THEN TrimRight(SubSeq(txt, 1, Len(txt) - 1)) ELSE txt
Trim(txt) == TrimRight(TrimLeft(txt))

\* indexOf / lastIndexOf, 1-based, 0 when the character does not occur
IndexOf(txt, c) ==
    LET ps == {i \in 1..Len(txt) : txt[i] = c} IN IF ps = {} THEN 0 ELSE Min(ps)
LastIndexOf(txt, c) ==
    LET ps == {i \in 1..Len(txt) : txt[i] = c} IN IF ps = {} THEN 0 ELSE Max(ps)

\* the text the brace scan is applied to: the group of the match with the json tag, else
\* of the match without a tag, else the whole response; trimmed
JsonTextMutPlainFirst(responseText) ==
    LET tagged == FenceMatch(responseText, JsonTag)
        plain  == FenceMatch(responseText, <<>>)
    IN  IF plain.matched THEN Trim(plain.group)
        ELSE IF tagged.matched THEN Trim(tagged.group)
        ELSE Trim(responseText)
JsonText(responseText) ==
    LET tagged == FenceMatch(responseText, JsonTag)
        plain  == FenceMatch(responseText, <<>>)
    IN  IF tagged.matched THEN Trim(tagged.group)
        ELSE IF plain.matched THEN Trim(plain.group)
        ELSE Trim(responseText)

\* the extraction: the span from the first "{" to the last "}" of the text
Extract(responseText) ==
    LET jsonText  == JsonText(responseText)
        jsonStart == IndexOf(jsonText, "{")
        jsonEnd   == LastIndexOf(jsonText, "}")
    IN  IF jsonStart # 0 /\ jsonEnd # 0 /\ jsonEnd > jsonStart
        THEN [found |-> TRUE, text |-> SubSeq(jsonText, jsonStart, jsonEnd)]
        ELSE [found |-> FALSE, text |-> <<>>]

\* JSON.parse on a text that starts with "{" and ends with "}": the parsed value is
\* the text without its insignificant white space; the parse throws unless the text
\* is one object whose members are scalar members or a key followed by an object
Compact(txt) == SelectSeq(txt, LAMBDA c : c \notin WS)
Depth(t, n) ==
    Cardinality({i \in 1..n : t[i] = "{"}) - Cardinality({i \in 1..n : t[i] = "}"})
JsonWellFormed(t) ==
    /\ Len(t) >= 2 /\ t[1] = "{" /\ t[Len(t)] = "}"
    /\ \A i \in 1..Len(t) : t[i] \in {"{", "}"} \cup ObjectKeys \cup ScalarMembers
    /\ \A n \in 1..(Len(t) - 1) : Depth(t, n) >= 1
    /\ Depth(t, Len(t)) = 0
    /\ \A i \in 2..Len(t) : t[i] = "{" <=> t[i - 1] \in ObjectKeys
JsonParse(txt) ==
    LET t == Compact(txt) IN
    IF JsonWellFormed(t) THEN [ok |-> TRUE, value |-> t] ELSE [ok |-> FALSE, value |-> <<>>]

\* responseText.substring(0, 1000)
PreviewMutWhole(responseText) == responseText
Preview(responseText) ==
    SubSeq(responseText, 1, IF Len(responseText) < PreviewLen THEN Len(responseText)
                            ELSE PreviewLen)

\* a response of the endpoint; report is NoReport and rawResponse empty when the body
\* has no such member.  extractedJson is not part of the body: it is the text the
\* handler hands to JSON.parse, and generatorCalled whether messages.create was called
NoReport == <<>>
EndpointResponse(status, error) ==
    [status |-> status, error |-> error, report |-> NoReport, rawResponse |-> <<>>,
     extractedJson |-> <<>>, generatorCalled |-> FALSE]

\* the try/catch around extraction and JSON.parse, and the final answer
ParseReport(responseText) ==
    LET x == Extract(responseText)
        r == JsonParse(x.text)
    IN  IF x.found /\ r.ok
        THEN [EndpointResponse(200, "") EXCEPT !.report = r.value, !.extractedJson = x.text,
                                               !.generatorCalled = TRUE]
        ELSE [EndpointResponse(500, "Failed to parse report") EXCEPT
                    !.rawResponse = Preview(responseText), !.extractedJson = x.text,
                    !.generatorCalled = TRUE]

\* !transcript, for a transcript given as the parts whose concatenation it is
EmptyText(parts) == \A i \in 1..Len(parts) : Falsy(parts[i])

\* POST /api/generate-report: keyConfigured is whether ANTHROPIC_API_KEY is set,
\* transcript the request's transcript, generator what messages.create does: it throws,
\* or it returns a text, or its first content block is not a text
GenerateReportMutNoTranscriptCheck(keyConfigured, transcript, generator) ==
    IF ~keyConfigured THEN EndpointResponse(500, "Anthropic API key not configured")
    ELSE IF generator.kind = "throws"
    THEN [EndpointResponse(500, "Failed to generate report") EXCEPT !.generatorCalled = TRUE]
    ELSE ParseReport(IF generator.kind = "text" THEN generator.text ELSE <<>>)
GenerateReport(keyConfigured, transcript, generator) ==
    IF ~keyConfigured THEN EndpointResponse(500, "Anthropic API key not configured")
    ELSE IF EmptyText(transcript) THEN EndpointResponse(400, "Transcript is required")
    ELSE IF generator.kind = "throws"
    THEN [EndpointResponse(500, "Failed to generate report") EXCEPT !.generatorCalled = TRUE]
    ELSE ParseReport(IF generator.kind = "text" THEN generator.text ELSE <<>>)

\* one exchange with the endpoint: the transcript of the request, what the generator
\* would do, and the answer given
NoGenerator == [kind |-> "none", text |-> <<>>, shape |-> "none", object |-> <<>>]
NoGeneration ==
    [transcript |-> <<>>, generator |-> NoGenerator, answer |-> EndpointResponse(0, "")]
\* the server handles one POST /api/generate-report
HandleGenerate(transcript, generator) ==
    gx' = [transcript |-> transcript, generator |-> generator,
           answer |-> GenerateReport(anthropicApiKey, transcript, generator)]

----------------------------------------------------------------------------
(* The transcript endpoint: /api/transcript                                *)
(*                                                                         *)
(* The provider answers two calls: the list of the agent's conversations   *)
(* and the detail of one conversation.  An answer either rejects (the      *)
(* fetch throws) or is a response with a status, the body as text (the     *)
(* error detail of a failure) and the body as JSON.  A text built by a     *)
(* template or a join is the sequence of its non-empty pieces, so the      *)
(* empty string is the empty sequence.                                     *)

ProviderRejects == [kind |-> "rejects", status |-> 0, text |-> "", json |-> [kind |-> "none"]]
ProviderResponse(status, text, json) ==
    [kind |-> "response", status |-> status, text |-> text, json |-> json]
NotJson == [kind |-> "notjson"]
JsonNull == [kind |-> "null"]

\* the body of the list call: conversations is absent or an array of
\* [conversation_id, start_time_unix_secs]
NoArray == [kind |-> "absent", items |-> <<>>, text |-> ""]
Array(items) == [kind |-> "array", items |-> items, text |-> ""]
String(text) == [kind |-> "string", items |-> <<>>, text |-> text]
ConversationsData(conversations) == [kind |-> "object", conversations |-> conversations]
\* the body of the detail call: transcript and messages are absent, an array of
\* [role, message] or a string
TranscriptData(transcript, messages) ==
    [kind |-> "object", transcript |-> transcript, messages |-> messages]

\* sortedConversations[0]: the sort is by start time, latest first, and stable
LatestConversation(conversations) ==
    conversations[Min({i \in 1..Len(conversations) :
        \A j \in 1..Len(conversations) :
            conversations[j].start_time_unix_secs <= conversations[i].start_time_unix_secs})]

\* the pieces of a text, without the empty ones
Text(parts) == SelectSeq(parts, LAMBDA s : s # "")
BlankLine == "\n\n"
RECURSIVE Join(_, _)
Join(entries, sep) ==
    IF entries = <<>> THEN <<>>
    ELSE IF Len(entries) = 1 THEN entries[1]
    ELSE entries[1] \o <<sep>> \o Join(Tail(entries), sep)

SpeakerMutSwapped(role) == IF role = "user" THEN "Interviewer" ELSE "Candidate"
Speaker(role) == IF role = "user" THEN "Candidate" ELSE "Interviewer"
\* `${speaker}: ${turn.message || ''}`
TurnEntry(turn) == <<Speaker(turn.role), ": ", IF Falsy(turn.message) THEN "" ELSE turn.message>>
\* `${speaker}: ${msg.message}`: a missing message prints as undefined
MessageEntry(msg) == <<Speaker(msg.role), ": ", msg.message>>

\* formattedTranscript
FormatTranscript(data) ==
    IF data.transcript.kind = "array"
    THEN Text(Join([i \in 1..Len(data.transcript.items) |-> TurnEntry(data.transcript.items[i])],
                   BlankLine))
    ELSE IF data.messages.kind = "array"
    THEN Text(Join([i \in 1..Len(data.messages.items) |-> MessageEntry(data.messages.items[i])],
                   BlankLine))
    ELSE IF data.transcript.kind = "string"
    THEN Text(<<data.transcript.text>>)
    ELSE <<>>

\* a response of the endpoint; hasTranscript is whether the body has a transcript
\* member.  calls is not part of the body: it is the calls the handler made to the
\* provider, "list" and then the conversation id of the detail call
NoConversation == ""
TranscriptResponse(status, error, details, made) ==
    [status |-> status, error |-> error, details |-> details, hasTranscript |-> FALSE,
     transcript |-> <<>>, conversationId |-> NoConversation, calls |-> made]
InternalServerError(made) == TranscriptResponse(500, "Internal server error", "", made)

\* the second half of the handler: the detail call for the latest conversation
TranscriptOfMutStatus500(latest, detail) ==
    LET made == <<"list", latest.conversation_id>> IN
    IF detail.kind = "rejects" THEN InternalServerError(made)
    ELSE IF ~Ok(detail.status)
    THEN TranscriptResponse(500, "Failed to fetch transcript", detail.text, made)
    ELSE IF detail.json.kind # "object" THEN InternalServerError(made)
    ELSE [TranscriptResponse(200, "", "", made) EXCEPT
                !.hasTranscript = TRUE,
                !.transcript = FormatTranscript(detail.json),
                !.conversationId = latest.conversation_id]
TranscriptOf(latest, detail) ==
    LET made == <<"list", latest.conversation_id>> IN
    IF detail.kind = "rejects" THEN InternalServerError(made)
    ELSE IF ~Ok(detail.status)
    THEN TranscriptResponse(detail.status, "Failed to fetch transcript", detail.text, made)
    ELSE IF detail.json.kind # "object" THEN InternalServerError(made)
    ELSE [TranscriptResponse(200, "", "", made) EXCEPT
                !.hasTranscript = TRUE,
                !.transcript = FormatTranscript(detail.json),
                !.conversationId = latest.conversation_id]

\* GET /api/transcript: keyConfigured is whether ELEVEN_LABS_API_KEY is set, list what
\* the provider answers to the list call and detail, for each conversation id, what it
\* answers to the detail call
GetTranscriptMutNoKeyCheck(keyConfigured, list, detail) ==
    IF list.kind = "rejects" THEN InternalServerError(<<"list">>)
    ELSE IF ~Ok(list.status)
    THEN TranscriptResponse(list.status, "Failed to fetch conversations", list.text, <<"list">>)
    ELSE IF list.json.kind = "notjson" THEN InternalServerError(<<"list">>)
    ELSE IF list.json.kind = "null" \/ list.json.conversations.kind # "array"
            \/ list.json.conversations.items = <<>>
    THEN TranscriptResponse(404, "No conversations found", "", <<"list">>)
    ELSE LET latest == LatestConversation(list.json.conversations.items)
         IN  TranscriptOf(latest, detail[latest.conversation_id])
GetTranscript(keyConfigured, list, detail) ==
    IF ~keyConfigured
    THEN TranscriptResponse(500, "ElevenLabs API key not configured", "", <<>>)
    ELSE IF list.kind = "rejects" THEN InternalServerError(<<"list">>)
    ELSE IF ~Ok(list.status)
    THEN TranscriptResponse(list.status, "Failed to fetch conversations", list.text, <<"list">>)
    ELSE IF list.json.kind = "notjson" THEN InternalServerError(<<"list">>)
    ELSE IF list.json.kind = "null" \/ list.json.conversations.kind # "array"
            \/ list.json.conversations.items = <<>>
    THEN TranscriptResponse(404, "No conversations found", "", <<"list">>)
    ELSE LET latest == LatestConversation(list.json.conversations.items)
         IN  TranscriptOf(latest, detail[latest.conversation_id])

\* one exchange with the endpoint: what the provider would answer, and the answer given
NoExchange ==
    [list |-> ProviderRejects, detail |-> [c \in {} |-> ProviderRejects],
     answer |-> TranscriptResponse(0, "", "", <<>>)]
\* the server handles one GET /api/transcript
HandleTranscript(list, detail) ==
    tx' = [list |-> list, detail |-> detail,
           answer |-> GetTranscript(elevenLabsApiKey, list, detail)]

----------------------------------------------------------------------------
(* The report page *)

NoCodeData == Response("GET", 0)
\* codeResponse is the answer to the snapshot lookup (NoCodeData when no lookup was
\* made) and transcriptData the answer of the transcript endpoint
RpIdle == [stage |-> "None", sid |-> NoSession, codeResponse |-> NoCodeData,
           codeData |-> NoCodeData, transcriptData |-> TranscriptResponse(0, "", "", <<>>),
           transcript |-> <<>>, fullContext |-> <<>>, generator |-> NoGenerator,
           answer |-> EndpointResponse(0, ""), loading |-> TRUE, report |-> NoReport,
           error |-> ""]

\* handleFinishInterview: router.push('/report').  Home and CodeEditor unmount (the
\* editor effect's cleanup runs), ReportPage mounts and its effect starts generateReport
FinishInterview ==
    /\ page = "home"
    /\ DueTimers = {}
    /\ page' = "report"
    /\ timers' = EffectCleanup(timers, effectTimers, timeoutId)
    /\ effectTimers' = {}
    /\ rp' = [RpIdle EXCEPT !.stage = "FetchingSnapshot", !.sid = GetSessionId(sessionStorage)]
    /\ sessionCall' = SessionCall("getSessionId", sessionStorage, GetSessionId(sessionStorage))
    /\ UNCHANGED <<now, sessionStorage, nextSid, sessionIdRef, code, language, webhookStatus,
                   enabled, clientKey, timeoutId, nextTimer, edits, calls, sends, serverVars>>

\* the catch of generateReport
Failed(r, message) == [r EXCEPT !.stage = "Failed", !.error = message, !.loading = FALSE]
Fail(message) == rp' = Failed(rp, message)

\* generateReport after the snapshot lookup answered: codeData is the body of a 2xx
\* answer, and stays null otherwise
AfterSnapshotMutFatal(r, response) ==
    IF response.status \notin {0, 200}
    THEN Failed([r EXCEPT !.codeResponse = response], "No code found for this session")
    ELSE [r EXCEPT !.stage = "FetchingTranscript", !.codeResponse = response,
                   !.codeData = IF Ok(response.status) THEN response ELSE NoCodeData]
AfterSnapshot(r, response) ==
    [r EXCEPT !.stage = "FetchingTranscript", !.codeResponse = response,
              !.codeData = IF Ok(response.status) THEN response ELSE NoCodeData]

\* generateReport step 1: fetch the code of the session, when there is a session id; no
\* X-API-Key header is sent
FetchSnapshot ==
    /\ rp.stage = "FetchingSnapshot"
    /\ rp' = AfterSnapshot(rp, IF rp.sid # NoSession
                               THEN GET(codeStore, expectedKey, Absent, rp.sid)
                               ELSE NoCodeData)
    /\ UNCHANGED <<now, clientVars, serverVars>>

\* the code section of the context
CodeSection(codeData) ==
    <<"\n\n--- Code Written During Interview ---\nLanguage: ", codeData.language, "\n\n",
      codeData.code>>
\* fullContext: the transcript, then the code section when a snapshot with code was found
FullContextMutAlways(transcript, codeData) == transcript \o Text(CodeSection(codeData))
FullContext(transcript, codeData) ==
    IF codeData.status = 200 /\ ~Falsy(codeData.code)
    THEN transcript \o Text(CodeSection(codeData))
    ELSE transcript

\* generateReport after the transcript endpoint answered
AfterTranscriptMutProceed(r, a) ==
    [r EXCEPT !.stage = "Synthesizing", !.transcriptData = a, !.transcript = a.transcript,
              !.fullContext = FullContext(a.transcript, r.codeData)]
AfterTranscript(r, a) ==
    IF ~Ok(a.status)
    THEN Failed([r EXCEPT !.transcriptData = a], "Failed to fetch transcript")
    ELSE IF ~a.hasTranscript \/ a.transcript = <<>>
    THEN Failed([r EXCEPT !.transcriptData = a], "No transcript available")
    ELSE [r EXCEPT !.stage = "Synthesizing", !.transcriptData = a,
                   !.transcript = a.transcript,
                   !.fullContext = FullContext(a.transcript, r.codeData)]

\* generateReport step 2: fetch the transcript; list and detail are what the provider
\* answers to the endpoint
FetchTranscript(list, detail) ==
    /\ rp.stage = "FetchingTranscript"
    /\ HandleTranscript(list, detail)
    /\ rp' = AfterTranscript(rp, tx'.answer)
    /\ UNCHANGED <<now, clientVars, codeStore, expectedKey, accepted, resp, req,
                   anthropicApiKey, elevenLabsApiKey, gx>>

\* generateReport after the generate-report endpoint answered
AfterSynthesisMutKeepsLoading(r, g, a) ==
    IF ~Ok(a.status)
    THEN [r EXCEPT !.stage = "Failed", !.error = "Failed to generate report",
                   !.generator = g, !.answer = a]
    ELSE [r EXCEPT !.stage = "Done", !.report = a.report, !.loading = FALSE,
                   !.generator = g, !.answer = a]
AfterSynthesis(r, g, a) ==
    IF ~Ok(a.status)
    THEN [Failed(r, "Failed to generate report") EXCEPT !.generator = g, !.answer = a]
    ELSE [r EXCEPT !.stage = "Done", !.report = a.report, !.loading = FALSE,
                   !.generator = g, !.answer = a]

\* generateReport step 3: POST /api/generate-report with the context; g is what the
\* generator does with the prompt
Synthesize(g) ==
    /\ rp.stage = "Synthesizing"
    /\ HandleGenerate(rp.fullContext, g)
    /\ rp' = AfterSynthesis(rp, g, gx'.answer)
    /\ UNCHANGED <<now, clientVars, codeStore, expectedKey, accepted, resp, req,
                   anthropicApiKey, elevenLabsApiKey, tx>>

\* a fetch of generateReport rejects (the network fails): the catch takes over.  Step 1
\* fetches only when there is a session id
PageFetchRejects ==
    /\ \/ rp.stage = "FetchingSnapshot" /\ rp.sid # NoSession
       \/ rp.stage \in {"FetchingTranscript", "Synthesizing"}
    /\ Fail("Failed to fetch")
    /\ UNCHANGED <<now, clientVars, serverVars>>

----------------------------------------------------------------------------
(* Spec: one tab, from a closed page, against the webhook endpoint *)

Init ==
    /\ now = 0
    /\ page = "closed"
    /\ sessionStorage = NoSession
    /\ nextSid = 1
    /\ sessionCall = NoSessionCall
    /\ sessionIdRef = NoSession
    /\ code = InitialCode
    /\ language = "javascript"
    /\ webhookStatus = "idle"
    /\ enabled \in BOOLEAN
    /\ expectedKey \in {"", "k1"}
    /\ clientKey \in {"", expectedKey}
    /\ timeoutId = NoTimer
    /\ timers = {}
    /\ nextTimer = 1
    /\ effectTimers = {}
    /\ edits = 0
    /\ calls = <<>>
    /\ sends = <<>>
    /\ codeStore = EmptyStore
    /\ accepted = <<>>
    /\ resp = Response("none", 0)
    /\ req = Request("none", Absent, NoPayload, NoSession, EmptyStore)
    /\ anthropicApiKey = TRUE
    /\ elevenLabsApiKey = TRUE
    /\ tx = NoExchange
    /\ gx = NoGeneration
    /\ rp = RpIdle

Next ==
    \/ OpenHome
    \/ \E c \in EditorCodes : Edit(c)
    \/ \E l \in Languages : SetLanguage(l)
    \/ TimerFire
    \/ \E d \in Delays : Advance(d)
    \/ \E k \in 1..Len(sends) : Deliver(k)
    \/ \E k \in 1..Len(sends) : NetworkError(k)
    \/ FinishInterview
    \/ FetchSnapshot

Spec == Init /\ [][Next]_vars

----------------------------------------------------------------------------
(* SpecStore: arbitrary clients call the webhook endpoint directly *)

StoreSessionIds == {1, 2}
ValidBodies ==
    {[malformed |-> FALSE, code |-> b[1], language |-> "javascript", timestamp |-> b[3],
      sessionId |-> sid, userId |-> b[2]] :
        b \in {<<"console.log(1)", "u1", 900>>, <<"return 1", Absent, 400>>},
        sid \in StoreSessionIds}
ABody == [malformed |-> FALSE, code |-> "console.log(1)", language |-> "javascript",
          timestamp |-> 400, sessionId |-> 1, userId |-> "u1"]
\* bodies that lack a required field, carry it empty, or are not JSON
BadBodies ==
    {[ABody EXCEPT !.code = Absent], [ABody EXCEPT !.code = ""],
     [ABody EXCEPT !.language = Absent], [ABody EXCEPT !.language = ""],
     [ABody EXCEPT !.timestamp = NoTime], [ABody EXCEPT !.sessionId = NoSession],
     [ABody EXCEPT !.malformed = TRUE]}
StoreBodies == ValidBodies \cup BadBodies
ApiKeys == {Absent, "", "k1"}

StorePost(apiKey, body) ==
    /\ Len(accepted) < MaxPosts
    /\ HandlePost(apiKey, body)
    /\ UNCHANGED <<now, clientVars, rp>>

StoreGet(apiKey, sid) ==
    /\ resp' = GET(codeStore, expectedKey, apiKey, sid)
    /\ req' = Request("GET", apiKey, NoPayload, sid, codeStore)
    /\ UNCHANGED <<now, clientVars, codeStore, expectedKey, accepted, anthropicApiKey,
                   elevenLabsApiKey, tx, gx, rp>>

StoreOptions ==
    /\ resp' = OPTIONS
    /\ req' = Request("OPTIONS", Absent, NoPayload, NoSession, codeStore)
    /\ UNCHANGED <<now, clientVars, codeStore, expectedKey, accepted, anthropicApiKey,
                   elevenLabsApiKey, tx, gx, rp>>

StoreTick ==
    /\ now + 500 <= MaxStoreTicks * 500
    /\ now' = now + 500
    /\ UNCHANGED <<clientVars, serverVars, rp>>

InitStore ==
    /\ now = 0
    /\ page = "closed"
    /\ sessionStorage = NoSession
    /\ nextSid = 1
    /\ sessionCall = NoSessionCall
    /\ sessionIdRef = NoSession
    /\ code = InitialCode
    /\ language = "javascript"
    /\ webhookStatus = "idle"
    /\ enabled = TRUE
    /\ clientKey = ""
    /\ timeoutId = NoTimer
    /\ timers = {}
    /\ nextTimer = 1
    /\ effectTimers = {}
    /\ edits = 0
    /\ calls = <<>>
    /\ sends = <<>>
    /\ codeStore = EmptyStore
    /\ expectedKey \in {"", "k1"}
    /\ accepted = <<>>
    /\ resp = Response("none", 0)
    /\ req = Request("none", Absent, NoPayload, NoSession, EmptyStore)
    /\ anthropicApiKey = TRUE
    /\ elevenLabsApiKey = TRUE
    /\ tx = NoExchange
    /\ gx = NoGeneration
    /\ rp = RpIdle

NextStore ==
    \/ \E k \in ApiKeys, b \in StoreBodies : StorePost(k, b)
    \/ \E k \in ApiKeys, sid \in {NoSession, 3} \cup StoreSessionIds : StoreGet(k, sid)
    \/ StoreOptions
    \/ StoreTick

SpecStore == InitStore /\ [][NextStore]_vars

----------------------------------------------------------------------------
(* SpecSession: arbitrary calls of the functions of lib/session in one tab *)

\* the ids a caller hands to setSessionId
GivenSessionIds == {101, 102, 103, EmptySessionId}

CallGetOrCreateSessionId ==
    LET g == GetOrCreateSessionId(sessionStorage, nextSid) IN
    /\ g.generated => nextSid <= MaxSessions
    /\ sessionStorage' = g.stored
    /\ sessionCall' = SessionCall("getOrCreateSessionId", sessionStorage, g.id)
    /\ nextSid' = IF g.generated THEN nextSid + 1 ELSE nextSid
    /\ UNCHANGED <<now, page, sessionIdRef, code, language, webhookStatus, enabled, clientKey,
                   timeoutId, timers, nextTimer, effectTimers, edits, calls, sends,
                   serverVars, rp>>

CallGetSessionId ==
    /\ sessionCall' = SessionCall("getSessionId", sessionStorage, GetSessionId(sessionStorage))
    /\ UNCHANGED <<now, page, sessionStorage, nextSid, sessionIdRef, code, language,
                   webhookStatus, enabled, clientKey, timeoutId, timers, nextTimer,
                   effectTimers, edits, calls, sends, serverVars, rp>>

CallClearSessionId ==
    /\ sessionStorage' = ClearSessionId(sessionStorage)
    /\ sessionCall' = SessionCall("clearSessionId", sessionStorage, NoSession)
    /\ UNCHANGED <<now, page, nextSid, sessionIdRef, code, language, webhookStatus, enabled,
                   clientKey, timeoutId, timers, nextTimer, effectTimers, edits, calls,
                   sends, serverVars, rp>>

CallSetSessionId(sessionId) ==
    /\ sessionStorage' = SetSessionId(sessionStorage, sessionId)
    /\ sessionCall' = SessionCall("setSessionId", sessionStorage, NoSession)
    /\ UNCHANGED <<now, page, nextSid, sessionIdRef, code, language, webhookStatus, enabled,
                   clientKey, timeoutId, timers, nextTimer, effectTimers, edits, calls,
                   sends, serverVars, rp>>

InitSession == InitStore /\ expectedKey = ""

NextSession ==
    \/ CallGetOrCreateSessionId
    \/ CallGetSessionId
    \/ CallClearSessionId
    \/ \E sessionId \in GivenSessionIds : CallSetSessionId(sessionId)

SpecSession == InitSession /\ [][NextSession]_vars

----------------------------------------------------------------------------
(* SpecSend: arbitrary callers of sendCodeUpdate, against any backend *)

SendPayloads ==
    {Payload("return 1", "javascript", 1, 0), Payload("", "python", 2, 500)}
SendConfigs ==
    {[enabled |-> e, url |-> u] :
        e \in BOOLEAN, u \in {"", WebhookUrl, "https://backend.example/hook"}}
\* what a backend can answer: a JSON body, a body that is not JSON, no body at all
Responses ==
    {FetchResponse(200, TRUE), FetchResponse(201, TRUE), FetchResponse(200, FALSE),
     FetchResponse(204, FALSE), FetchResponse(400, TRUE), FetchResponse(401, TRUE),
     FetchResponse(500, TRUE), FetchResponse(502, FALSE)}

\* a caller invokes sendCodeUpdate(payload, config)
CallSend(payload, config) ==
    /\ Len(sends) < MaxSends
    /\ sends' = Append(sends, StartSend(0, payload, config, now))
    /\ UNCHANGED <<now, page, sessionStorage, sessionCall, nextSid, sessionIdRef, code, language,
                   webhookStatus, enabled, clientKey, timeoutId, timers, nextTimer,
                   effectTimers, edits, calls, serverVars, rp>>

\* the fetch of send k resolves with the response r
Respond(k, r) ==
    /\ sends[k].outcome = "pending"
    /\ LET tab == Settle([sends |-> sends, enabled |-> enabled], k, r, now)
       IN  sends' = tab.sends /\ enabled' = tab.enabled
    /\ UNCHANGED <<now, page, sessionStorage, sessionCall, nextSid, sessionIdRef, code, language,
                   webhookStatus, clientKey, timeoutId, timers, nextTimer,
                   effectTimers, edits, calls, serverVars, rp>>

SendTick ==
    /\ now + 500 <= MaxStoreTicks * 500
    /\ now' = now + 500
    /\ UNCHANGED <<clientVars, serverVars, rp>>

InitSend ==
    /\ now = 0
    /\ page = "closed"
    /\ sessionStorage = NoSession
    /\ nextSid = 1
    /\ sessionCall = NoSessionCall
    /\ sessionIdRef = NoSession
    /\ code = InitialCode
    /\ language = "javascript"
    /\ webhookStatus = "idle"
    /\ enabled = TRUE
    /\ clientKey = ""
    /\ timeoutId = NoTimer
    /\ timers = {}
    /\ nextTimer = 1
    /\ effectTimers = {}
    /\ edits = 0
    /\ calls = <<>>
    /\ sends = <<>>
    /\ codeStore = EmptyStore
    /\ expectedKey = ""
    /\ accepted = <<>>
    /\ resp = Response("none", 0)
    /\ req = Request("none", Absent, NoPayload, NoSession, EmptyStore)
    /\ anthropicApiKey = TRUE
    /\ elevenLabsApiKey = TRUE
    /\ tx = NoExchange
    /\ gx = NoGeneration
    /\ rp = RpIdle

NextSend ==
    \/ \E p \in SendPayloads, c \in SendConfigs : CallSend(p, c)
    \/ \E k \in 1..Len(sends), r \in Responses : Respond(k, r)
    \/ \E k \in 1..Len(sends) : NetworkError(k)
    \/ SendTick

SpecSend == InitSend /\ [][NextSend]_vars

----------------------------------------------------------------------------
(* SpecTranscript: arbitrary clients call the transcript endpoint, against  *)
(* any provider                                                            *)

ConversationIds == {"c1", "c2"}
Conversation(id, start) == [conversation_id |-> id, start_time_unix_secs |-> start]
Turn(role, message) == [role |-> role, message |-> message]
TurnLists ==
    {<<>>,
     <<Turn("user", "two pointers")>>,
     <<Turn("agent", "hello"), Turn("user", "hi")>>,
     <<Turn("user", Absent)>>,
     <<Turn("agent", "hello"), Turn("user", ""), Turn("agent", "bye")>>}
ErrorStatuses == {401, 404, 500}
\* what the provider answers to the list call
ListResponses ==
    {ProviderRejects}
    \cup {ProviderResponse(s, "quota exceeded", NotJson) : s \in ErrorStatuses}
    \cup {ProviderResponse(200, "", j) :
            j \in {NotJson, JsonNull, ConversationsData(NoArray), ConversationsData(Array(<<>>)),
                   ConversationsData(Array(<<Conversation("c1", 10)>>)),
                   ConversationsData(Array(<<Conversation("c1", 10), Conversation("c2", 20)>>)),
                   ConversationsData(Array(<<Conversation("c2", 20), Conversation("c1", 10)>>)),
                   ConversationsData(Array(<<Conversation("c2", 10), Conversation("c1", 10)>>))}}
\* what the provider answers to the detail call
DetailBodies ==
    {TranscriptData(Array(t), NoArray) : t \in TurnLists}
    \cup {TranscriptData(NoArray, Array(t)) : t \in TurnLists}
    \cup {TranscriptData(String("Candidate: hi"), NoArray), TranscriptData(String(""), NoArray),
          TranscriptData(NoArray, NoArray), NotJson, JsonNull}
DetailResponses ==
    {ProviderRejects}
    \cup {ProviderResponse(s, "conversation not found", NotJson) : s \in ErrorStatuses}
    \cup {ProviderResponse(200, "", j) : j \in DetailBodies}
OtherDetails ==
    {ProviderRejects, ProviderResponse(404, "conversation not found", NotJson),
     ProviderResponse(200, "", TranscriptData(Array(<<Turn("agent", "welcome")>>), NoArray))}
Details == {[c \in ConversationIds |-> IF c = "c1" THEN d[1] ELSE d[2]] :
                d \in DetailResponses \X OtherDetails}

TranscriptGet(list, detail) ==
    /\ HandleTranscript(list, detail)
    /\ UNCHANGED <<now, clientVars, codeStore, expectedKey, accepted, resp, req,
                   anthropicApiKey, elevenLabsApiKey, gx, rp>>

InitTranscript ==
    /\ now = 0
    /\ page = "closed"
    /\ sessionStorage = NoSession
    /\ nextSid = 1
    /\ sessionCall = NoSessionCall
    /\ sessionIdRef = NoSession
    /\ code = InitialCode
    /\ language = "javascript"
    /\ webhookStatus = "idle"
    /\ enabled = TRUE
    /\ clientKey = ""
    /\ timeoutId = NoTimer
    /\ timers = {}
    /\ nextTimer = 1
    /\ effectTimers = {}
    /\ edits = 0
    /\ calls = <<>>
    /\ sends = <<>>
    /\ codeStore = EmptyStore
    /\ expectedKey = ""
    /\ accepted = <<>>
    /\ resp = Response("none", 0)
    /\ req = Request("none", Absent, NoPayload, NoSession, EmptyStore)
    /\ anthropicApiKey = TRUE
    /\ elevenLabsApiKey \in BOOLEAN
    /\ tx = NoExchange
    /\ gx = NoGeneration
    /\ rp = RpIdle

NextTranscript == \E list \in ListResponses, detail \in Details : TranscriptGet(list, detail)

SpecTranscript == InitTranscript /\ [][NextTranscript]_vars

----------------------------------------------------------------------------
(* SpecReport: the report page runs generateReport against the endpoints   *)

\* report objects a generator can embed in its response
FullReport == <<"{", "S", "G", "{", "C", "M", "A", "}", "T", "I", "R", "W", "}">>
PrettyReport ==
    <<"{", NL, " ", "S", NL, " ", "G", " ", "{", NL, " ", " ", "C", NL, " ", " ", "M", NL,
      " ", " ", "A", NL, " ", "}", NL, " ", "T", NL, " ", "I", NL, " ", "R", NL, " ", "W",
      NL, "}">>
ReportObjects ==
    {FullReport, PrettyReport,
     <<"{", "S", "G", "{", "C", "M", "}", "T", "I", "R", "W", "}">>,
     <<"{", "S", "G", "{", "C", "M", "Z", "}", "T", "I", "R", "W", "}">>,
     <<"{", "S", "G", "{", "C", "M", "E", "}", "T", "I", "R", "W", "}">>,
     <<"{", "S", "G", "{", "C", "M", "H", "}", "T", "I", "R", "W", "}">>,
     <<"{", "S", "G", "{", "C", "M", "A", "}", "T", "I", "Q", "W", "}">>,
     <<"{", "S", "G", "{", "C", "M", "A", "}", "T", "I", "W", "}">>,
     <<"{", "G", "{", "C", "M", "A", "}", "T", "I", "R", "W", "}">>,
     <<"{", "S", "T", "I", "R", "W", "}">>,
     <<"{", "}">>}

\* explanatory prose: words, a sentence that quotes code with braces, a sentence that
\* shows a fenced block
Words == <<"x", " ", "x">>
OpenBraceProse == <<"x", " ", "{", " ", "x">>
CloseBraceProse == <<"x", " ", "}", " ", "x">>
FencedProse == <<"x", NL>> \o Fence \o <<NL, "x", NL>> \o Fence

\* the responses that embed the object o, each with the shape it has
Embeddings(o) ==
    {[shape |-> "pure", text |-> o],
     [shape |-> "pure", text |-> <<NL>> \o o \o <<" ", NL>>],
     [shape |-> "fenced", text |-> Fence \o JsonTag \o <<NL>> \o o \o <<NL>> \o Fence],
     [shape |-> "fenced", text |-> Fence \o JsonTag \o <<" ", NL, NL>> \o o \o <<NL>> \o Fence
                                   \o <<NL>>],
     [shape |-> "fenced", text |-> Fence \o <<NL>> \o o \o <<NL>> \o Fence],
     [shape |-> "fenced", text |-> Fence \o JsonTag \o o \o Fence],
     [shape |-> "prose", text |-> Words \o <<NL, NL>> \o o],
     [shape |-> "prose", text |-> o \o <<NL, NL>> \o Words],
     [shape |-> "prose", text |-> Words \o <<NL>> \o o \o <<NL>> \o Words],
     [shape |-> "prose", text |-> Words \o <<NL>> \o Fence \o JsonTag \o <<NL>> \o o
                                  \o <<NL>> \o Fence \o <<NL>> \o Words],
     [shape |-> "prose", text |-> OpenBraceProse \o <<NL>> \o o],
     [shape |-> "prose", text |-> o \o <<NL>> \o CloseBraceProse],
     [shape |-> "prose", text |-> FencedProse \o <<NL>> \o o],
     [shape |-> "prose", text |-> FencedProse \o <<NL>> \o Fence \o JsonTag \o <<NL>> \o o
                                  \o <<NL>> \o Fence]}

\* responses that embed no JSON object: cut short, prose only, empty, and two longer
\* than the preview
LongLen == PreviewLen + 1
OtherTexts ==
    {<<"{", "S", "G", "{", "C", "M">>,
     <<"{", "S", "x", "}">>,
     Words,
     <<"}", " ", "{">>,
     <<>>,
     [i \in 1..LongLen |-> "x"],
     <<"{">> \o [i \in 1..LongLen |-> "x"] \o <<"}">>}

\* what messages.create can do
Generators ==
    {[kind |-> "throws", text |-> <<>>, shape |-> "none", object |-> <<>>],
     [kind |-> "image", text |-> <<>>, shape |-> "none", object |-> <<>>]}
    \cup {[kind |-> "text", text |-> t, shape |-> "none", object |-> <<>>] : t \in OtherTexts}
    \cup UNION {{[kind |-> "text", text |-> e.text, shape |-> e.shape, object |-> o] :
                    e \in Embeddings(o)} : o \in ReportObjects}

\* the provider as the report page meets it
ReportLists ==
    {ProviderRejects, ProviderResponse(500, "quota exceeded", NotJson),
     ProviderResponse(200, "", ConversationsData(Array(<<>>))),
     ProviderResponse(200, "", ConversationsData(Array(<<Conversation("c1", 10)>>)))}
ReportDetails ==
    {[c \in ConversationIds |-> d] :
        d \in {ProviderResponse(404, "conversation not found", NotJson),
               ProviderResponse(200, "", TranscriptData(Array(<<>>), NoArray)),
               ProviderResponse(200, "", TranscriptData(NoArray, NoArray)),
               ProviderResponse(200, "", TranscriptData(Array(
                    <<Turn("agent", "hello"), Turn("user", "hi")>>), NoArray))}}

InitReport ==
    /\ now = 0
    /\ page = "report"
    /\ sessionStorage \in {NoSession, 1}
    /\ nextSid = 2
    /\ sessionCall = NoSessionCall
    /\ sessionIdRef = NoSession
    /\ code = InitialCode
    /\ language = "javascript"
    /\ webhookStatus = "idle"
    /\ enabled = TRUE
    /\ clientKey = ""
    /\ timeoutId = NoTimer
    /\ timers = {}
    /\ nextTimer = 1
    /\ effectTimers = {}
    /\ edits = 0
    /\ calls = <<>>
    /\ sends = <<>>
    /\ codeStore \in {EmptyStore, CodeStoreSet(EmptyStore, 1, StoredCode(ABody, 0))}
    /\ expectedKey \in {"", "k1"}
    /\ anthropicApiKey \in BOOLEAN
    /\ elevenLabsApiKey \in BOOLEAN
    /\ tx = NoExchange
    /\ gx = NoGeneration
    /\ accepted = <<>>
    /\ resp = Response("none", 0)
    /\ req = Request("none", Absent, NoPayload, NoSession, EmptyStore)
    /\ rp = [RpIdle EXCEPT !.stage = "FetchingSnapshot", !.sid = GetSessionId(sessionStorage)]

NextReport ==
    \/ FetchSnapshot
    \/ \E list \in ReportLists, detail \in ReportDetails : FetchTranscript(list, detail)
    \/ \E g \in Generators : Synthesize(g)
    \/ PageFetchRejects

SpecReport == InitReport /\ [][NextReport]_vars

----------------------------------------------------------------------------
(* SpecGenerate: arbitrary clients call the generate-report endpoint       *)

\* the transcript of a request: missing, empty, or a text
RequestTranscripts == {<<>>, <<"">>, <<"Interviewer: hello">>}

GenerateReportPost(transcript, g) ==
    /\ HandleGenerate(transcript, g)
    /\ UNCHANGED <<now, clientVars, codeStore, expectedKey, accepted, resp, req,
                   anthropicApiKey, elevenLabsApiKey, tx, rp>>

InitGenerate ==
    /\ InitReport
    /\ sessionStorage = NoSession /\ codeStore = EmptyStore /\ expectedKey = ""
    /\ elevenLabsApiKey

NextGenerate ==
    \E transcript \in RequestTranscripts, g \in Generators : GenerateReportPost(transcript, g)

SpecGenerate == InitGenerate /\ [][NextGenerate]_vars

----------------------------------------------------------------------------
(* Properties of the session id (SpecSession) *)

\* the step is a call of op
Calls(op) == sessionCall' # sessionCall /\ sessionCall'.op = op
Getters == {"getOrCreateSessionId", "getSessionId"}
\* the last call returned an id
ReturnedAnId ==
    sessionCall.op \in Getters /\ sessionCall.id \notin {NoSession, EmptySessionId}

\* C26: within one tab, after a call that returned an id, the next call of
\* getOrCreateSessionId or getSessionId returns that same id (so every later one does,
\* until clearSessionId or setSessionId is called), and getOrCreateSessionId leaves the
\* id it returns in the storage; after clearSessionId nothing is stored, getSessionId
\* returns null and getOrCreateSessionId generates an id that was never returned
\* before, and persists it.
C26_SessionIdIsStable ==
    /\ [][(ReturnedAnId /\ (Calls("getOrCreateSessionId") \/ Calls("getSessionId")))
            => (sessionCall'.id = sessionCall.id /\ sessionStorage' = sessionCall.id)]_vars
    /\ [](sessionCall.op = "getOrCreateSessionId" =>
            (sessionStorage = sessionCall.id /\ sessionCall.id \notin {NoSession, EmptySessionId}))
    /\ [](sessionCall.op = "clearSessionId" => sessionStorage = NoSession)
    /\ [][(sessionCall.op = "clearSessionId" /\ Calls("getSessionId"))
            => sessionCall'.id = NoSession]_vars
    /\ [][(sessionCall.op = "clearSessionId" /\ Calls("getOrCreateSessionId"))
            => (sessionCall'.id = nextSid /\ nextSid' > nextSid
                /\ sessionCall'.id # sessionCall.before
                /\ sessionStorage' = sessionCall'.id)]_vars

\* a second id was generated after the first one was cleared
C26_Witness ==
    /\ sessionCall.op = "getOrCreateSessionId"
    /\ sessionCall.before = NoSession
    /\ sessionCall.id = 2
    /\ sessionStorage = 2

----------------------------------------------------------------------------
(* Properties of the store (SpecStore) *)

\* the accepted POSTs for session id s, as indices of the log in arrival order
AcceptedFor(s) == {i \in 1..Len(accepted) : accepted[i].body.sessionId = s}
\* a GET for s by a client that passes the API key check
AuthorizedGet(s) == GET(codeStore, expectedKey, expectedKey, s)

\* C2: of two accepted puts for one session id, A before B in arrival order and B
\* the latest for that id, a get returns B, whatever the timestamps A and B carry.
C2_ArrivalOrderWins ==
    \A s \in StoreSessionIds : \A i, j \in AcceptedFor(s) :
        (i < j /\ j = Max(AcceptedFor(s))) =>
            LET A == accepted[i].body
                B == accepted[j].body
                g == AuthorizedGet(s)
            IN  /\ g.status = 200
                /\ <<g.code, g.language, g.timestamp, g.userId>>
                        = <<B.code, B.language, B.timestamp, B.userId>>

\* B arrived after A, A carries the later timestamp, and a GET answered B
C2_Witness ==
    \E s \in StoreSessionIds : \E i, j \in AcceptedFor(s) :
        /\ i < j /\ j = Max(AcceptedFor(s))
        /\ accepted[i].body.timestamp > accepted[j].body.timestamp
        /\ resp.op = "GET" /\ resp.status = 200 /\ resp.sessionId = s
        /\ resp.timestamp = accepted[j].body.timestamp

\* C3: after an accepted POST for s, a GET for s returns the POST's code, language,
\* timestamp and userId, and a lastUpdated that is the server clock at the put.
C3_GetAfterPut ==
    \A s \in StoreSessionIds :
        AcceptedFor(s) # {} =>
            LET p == accepted[Max(AcceptedFor(s))]
                g == AuthorizedGet(s)
            IN  /\ g.status = 200 /\ g.sessionId = s
                /\ g.code = p.body.code /\ g.language = p.body.language
                /\ g.timestamp = p.body.timestamp /\ g.userId = p.body.userId
                /\ g.lastUpdated = p.at /\ g.lastUpdated <= now

\* a GET answered a snapshot put at a server time that is not its client timestamp
C3_Witness ==
    \E s \in StoreSessionIds :
        /\ AcceptedFor(s) # {}
        /\ resp.op = "GET" /\ resp.status = 200 /\ resp.sessionId = s
        /\ resp.lastUpdated = accepted[Max(AcceptedFor(s))].at
        /\ resp.lastUpdated > 0
        /\ resp.lastUpdated # resp.timestamp

\* C4: the store holds exactly one entry for each session id with an accepted POST
\* and none for any other, and the entry is made of the fields of the latest accepted
\* POST for that id alone.
C4_PutReplacesEntry ==
    /\ DOMAIN codeStore = {accepted[i].body.sessionId : i \in 1..Len(accepted)}
    /\ \A s \in DOMAIN codeStore :
            LET p == accepted[Max(AcceptedFor(s))]
            IN  codeStore[s] = [code |-> p.body.code, language |-> p.body.language,
                                timestamp |-> p.body.timestamp, userId |-> p.body.userId,
                                lastUpdated |-> p.at]

\* a POST without userId replaced a snapshot that had one
C4_Witness ==
    \E s \in DOMAIN codeStore : \E i, j \in AcceptedFor(s) :
        /\ i < j /\ j = Max(AcceptedFor(s))
        /\ accepted[i].body.userId = "u1" /\ accepted[j].body.userId = Absent
        /\ codeStore[s].userId = Absent
        /\ codeStore[s].code # accepted[i].body.code

\* the body is JSON and does not carry one of the required fields
LacksField(b) ==
    /\ ~b.malformed
    /\ b.code = Absent \/ b.language = Absent \/ b.timestamp = NoTime \/ b.sessionId = NoSession
\* the request passes the API key check
KeyAccepted == expectedKey = "" \/ req.apiKey = expectedKey

\* C18 as stated: a POST whose body lacks code, language, timestamp or sessionId is
\* answered 400 and leaves the store as it was.
C18_MissingFieldIs400 ==
    (req.op = "POST" /\ LacksField(req.body)) =>
        resp.status = 400 /\ codeStore = req.before

\* C18, amended: a POST that passes the API key check and whose JSON body lacks code,
\* language, timestamp or sessionId is answered 400 and leaves the store as it was; a
\* POST that fails the key check is answered 401 whatever its body lacks.
C18_AcceptedKeyMissingFieldIs400 ==
    (req.op = "POST" /\ LacksField(req.body)) =>
        /\ codeStore = req.before
        /\ resp.status = IF KeyAccepted THEN 400 ELSE 401

\* a POST with the right key and no timestamp was answered 400 and a stored session
\* was left as it was
C18_Witness ==
    /\ req.op = "POST" /\ req.body.timestamp = NoTime /\ req.body.code # Absent
    /\ expectedKey # "" /\ req.apiKey = expectedKey
    /\ resp.status = 400
    /\ req.body.sessionId \in DOMAIN codeStore
    /\ codeStore = req.before

\* C19: with a secret configured, a POST whose X-API-Key header is absent or differs
\* from the secret is answered 401 and leaves the store unchanged; with no secret the
\* header is ignored (every header gets the answer and the store this one got) and
\* no request is answered 401.
C19_KeyCheck ==
    /\ (req.op = "POST" /\ expectedKey # "" /\ req.apiKey # expectedKey) =>
            resp.status = 401 /\ codeStore = req.before
    /\ expectedKey = "" =>
            /\ resp.status # 401
            /\ req.op = "POST" =>
                    \A k \in ApiKeys :
                        POST(req.before, expectedKey, k, req.body, resp.timestamp)
                            = [response |-> resp, store |-> codeStore]
            /\ req.op = "GET" =>
                    \A k \in ApiKeys : GET(req.before, expectedKey, k, req.sid) = resp

\* a well-formed POST without the header was answered 401 with a secret configured,
\* and the session it names kept its snapshot
C19_Witness ==
    /\ req.op = "POST" /\ req.apiKey = Absent /\ expectedKey # ""
    /\ req.body \in ValidBodies
    /\ resp.status = 401
    /\ req.body.sessionId \in DOMAIN codeStore
    /\ codeStore[req.body.sessionId].code # req.body.code
    /\ codeStore = req.before

\* the session ids with an accepted POST
AcceptedIds == {accepted[i].body.sessionId : i \in 1..Len(accepted)}
\* a GET for a session id that has no entry
UnknownGet == req.op = "GET" /\ req.sid # NoSession /\ req.sid \notin DOMAIN req.before

C27_NoEviction ==
    /\ [][DOMAIN codeStore \subseteq DOMAIN codeStore']_vars
    /\ [](DOMAIN req.before \subseteq DOMAIN codeStore)
    /\ [](\A s \in DOMAIN codeStore :
            \E i \in AcceptedFor(s) :
                /\ codeStore[s].code = accepted[i].body.code
                /\ codeStore[s].timestamp = accepted[i].body.timestamp
                /\ codeStore[s].lastUpdated = accepted[i].at)

\* two sessions are stored, the second after the first, and a GET that read the first
\* has left both in place
C27_Witness ==
    /\ Cardinality(DOMAIN codeStore) = 2
    /\ req.op = "GET" /\ resp.status = 200 /\ req.sid = accepted[1].body.sessionId
    /\ codeStore = req.before
    /\ accepted[1].body.sessionId # accepted[2].body.sessionId

\* C34: the key check of POST comes before the body is parsed and validated: with a
\* secret configured, a POST with another or no key is answered 401, never 400 or 500,
\* also when its body is not JSON or lacks a required field, and the store is what it
\* was, as for any other body the request could have carried.
C34_KeyCheckBeforeBody ==
    (req.op = "POST" /\ expectedKey # "" /\ req.apiKey # expectedKey
        /\ (req.body.malformed \/ LacksField(req.body))) =>
            /\ resp.status = 401
            /\ codeStore = req.before
            /\ \A b \in StoreBodies :
                    POST(req.before, expectedKey, req.apiKey, b, now)
                        = [response |-> resp, store |-> codeStore]
\* a POST with a wrong key and a body that is not JSON was answered 401, with a
\* session in the store
C34_Witness ==
    /\ req.op = "POST" /\ expectedKey = "k1" /\ req.apiKey = ""
    /\ req.body.malformed
    /\ resp.status = 401
    /\ req.before # EmptyStore /\ codeStore = req.before

\* C35: with a secret configured, a response that discloses stored data (a snapshot,
\* the availableSessions of a 404, the sessions of the index) goes only to a request
\* with the matching key: a request with another or no key gets no code and no
\* session id.
C35_DisclosureNeedsKey ==
    (expectedKey # "" /\ req.op \in {"GET", "POST", "OPTIONS"} /\ req.apiKey # expectedKey) =>
        /\ resp.code = Absent
        /\ resp.sessions = {}
        /\ resp.totalSessions = 0

\* C38: a POST whose code is the empty text gets the answer a POST without code gets,
\* 400 when it passes the key check, so the store is what it was and a GET for a
\* stored session still returns the code stored before.
C38_EmptyCodeIsMissingCode ==
    (req.op = "POST" /\ ~req.body.malformed /\ req.body.code = "") =>
        /\ POST(req.before, expectedKey, req.apiKey, [req.body EXCEPT !.code = Absent], now)
                = [response |-> resp, store |-> codeStore]
        /\ KeyAccepted => resp.status = 400
        /\ resp.status # 200
        /\ codeStore = req.before
        /\ \A s \in DOMAIN req.before :
                /\ AuthorizedGet(s).status = 200
                /\ AuthorizedGet(s).code = req.before[s].code
                /\ AuthorizedGet(s).code # ""
\* the session had a snapshot, a POST with empty code for it passed the key check and
\* was answered 400, and the snapshot is still the one a GET returns
C38_Witness ==
    /\ req.op = "POST" /\ req.body.code = "" /\ KeyAccepted /\ expectedKey # ""
    /\ resp.status = 400
    /\ req.body.sessionId \in DOMAIN req.before
    /\ AuthorizedGet(req.body.sessionId).code = accepted[Len(accepted)].body.code
    /\ accepted[Len(accepted)].body.sessionId = req.body.sessionId

----------------------------------------------------------------------------
(* Properties of the debounced sender and the editor (Spec) *)

\* calls i..j follow each other by less than the debounce delay
SameBurst(i, j) ==
    \A m \in i..(j - 1) : calls[m + 1].at - calls[m].at < WEBHOOK_DEBOUNCE_DELAY
\* call i is the last call of its burst
BurstEnd(i) ==
    i = Len(calls) \/ calls[i + 1].at - calls[i].at >= WEBHOOK_DEBOUNCE_DELAY
\* the burst ending with call i is over: a later burst began, or its delay has passed
BurstOver(i) == i < Len(calls) \/ now > calls[i].at + WEBHOOK_DEBOUNCE_DELAY
\* the invocations of sendCodeUpdate made for the burst ending with call i
BurstSends(i) ==
    {k \in 1..Len(sends) : sends[k].call <= i /\ SameBurst(sends[k].call, i)}

\* C1: for every burst of calls of the debounced function, each following the
\* previous one by less than the delay, sendCodeUpdate is invoked at most once while
\* the burst lasts and exactly once when it is over, with the payload of the last
\* call of the burst.
C1_OneDeliveryPerBurst ==
    \A i \in 1..Len(calls) :
        BurstEnd(i) =>
            /\ Cardinality(BurstSends(i)) <= 1
            /\ \A k \in BurstSends(i) :
                    sends[k].call = i /\ sends[k].payload = calls[i].payload
            /\ BurstOver(i) => Cardinality(BurstSends(i)) = 1

\* a burst of three calls is over and was delivered once
C1_Witness ==
    \E i \in 3..Len(calls) :
        /\ BurstEnd(i) /\ BurstOver(i) /\ SameBurst(i - 2, i)
        /\ calls[i - 2].payload # calls[i].payload
        /\ Cardinality(BurstSends(i)) = 1

\* C5: every snapshot the editor hands to the debouncer carries the tab's persisted
\* session id, which is the id the report page looks the snapshot up with.
C5_EditorUsesTabSessionId ==
    /\ \A i \in 1..Len(calls) : calls[i].payload.sessionId = sessionStorage
    /\ rp.stage # "None" => rp.sid = sessionIdRef

\* C6: the status is "sent" only when the send of the latest call completed with a
\* 2xx response, and a failed latest send shows as "error" once its outcome is known
\* and the status left "sending".
C6_StatusReflectsOutcome ==
    /\ webhookStatus = "sent" =>
          \E k \in 1..Len(sends) : sends[k].call = Len(calls) /\ sends[k].outcome = "true"
    /\ (\E k \in 1..Len(sends) : sends[k].call = Len(calls) /\ sends[k].outcome = "false")
          => webhookStatus \in {"sending", "error"}

\* the accepted POST that arrived last
LastAccepted == accepted[Len(accepted)]

\* C11: the store holds the snapshot of the request that arrived last, also when that
\* request was sent first and carries the earlier timestamp; the execution in which
\* draft A is sent before draft B, both are in flight, B arrives, then A arrives and
\* the store is left holding A, is reachable (C11_Witness).
C11_LastArrivalIsStored ==
    accepted # <<>> =>
        LET A == LastAccepted.body IN
        /\ A.sessionId \in DOMAIN codeStore
        /\ codeStore[A.sessionId].code = A.code
        /\ codeStore[A.sessionId].language = A.language
        /\ codeStore[A.sessionId].timestamp = A.timestamp

\* send a (draft A) was invoked before send b (draft B, later timestamp, same session),
\* A was still in flight when B arrived, both were accepted, and the store holds A
C11_Witness ==
    \E a, b \in 1..Len(sends) :
        /\ a < b
        /\ sends[a].at < sends[b].at
        /\ sends[a].payload.sessionId = sends[b].payload.sessionId
        /\ sends[a].payload.timestamp < sends[b].payload.timestamp
        /\ sends[a].payload.code # sends[b].payload.code
        /\ sends[a].outcome = "true" /\ sends[b].outcome = "true"
        /\ Len(accepted) = 2
        /\ accepted[1].body = sends[b].payload
        /\ accepted[2].body = sends[a].payload
        /\ codeStore[sends[a].payload.sessionId].code = sends[a].payload.code
        /\ codeStore[sends[a].payload.sessionId].timestamp = sends[a].payload.timestamp

\* the calls of the debounced function were made at 0 and at 500 and no other call
\* came before 2500
CallsAt0And500 ==
    /\ Len(calls) >= 2
    /\ calls[1].at = 0 /\ calls[2].at = 500
    /\ Len(calls) > 2 => calls[3].at >= 2500

\* C12: sendCodeUpdate is never invoked earlier than the debounce delay after the most
\* recent call of the debounced function; with calls at 0 and 500 nothing is sent
\* before 2500, and exactly one send is made at 2500, with the payload of the call
\* at 500.
C12_NoDeliveryBeforeQuiescence ==
    /\ \A k \in 1..Len(sends) : \A j \in 1..Len(calls) :
            calls[j].at < sends[k].at => sends[k].at >= calls[j].at + 2000
    /\ CallsAt0And500 =>
            /\ \A k \in 1..Len(sends) : sends[k].at >= 2500
            /\ (now > 2500 \/ Len(calls) > 2) =>
                    /\ Cardinality({k \in 1..Len(sends) : sends[k].at = 2500}) = 1
                    /\ \A k \in 1..Len(sends) :
                            sends[k].at = 2500 => sends[k].payload = calls[2].payload

\* calls at 0 and 500 with different code, and the send at 2500 was made
C12_Witness ==
    /\ CallsAt0And500
    /\ calls[1].payload.code # calls[2].payload.code
    /\ now > 2500
    /\ \E k \in 1..Len(sends) : sends[k].at = 2500 /\ sends[k].payload.timestamp = 500

\* the timers of the debouncer that can still fire
PendingDebounce == {t \in timers : t.kind = "debounce"}

\* C13: in every reachable state the debouncer has at most one timer that can still
\* fire, and it is the timer set by the latest call.
C13_AtMostOnePendingTimer ==
    /\ Cardinality(PendingDebounce) <= 1
    /\ \A t \in PendingDebounce : t.id = timeoutId /\ t.call = Len(calls)

\* a second call came while the timer of the first was pending, and one timer is left
C13_Witness ==
    /\ Len(calls) >= 2
    /\ calls[2].at < calls[1].at + 2000
    /\ Cardinality(PendingDebounce) = 1
    /\ \E t \in PendingDebounce : t.call = 2 /\ t.due = calls[2].at + 2000

\* C15: a failed send is neither retried nor queued: every firing of the debounce timer
\* issues one request and there is no other request, each firing is the timer of a
\* call of its own made by an edit, so after a failed send the next request comes
\* from a later call of the debounced function.
C15_NoRetryOfFailedSend ==
    /\ Cardinality({k \in 1..Len(sends) : sends[k].requested}) = Len(sends)
    /\ \A k \in 1..Len(sends) :
            /\ sends[k].call \in 1..Len(calls)
            /\ sends[k].at = calls[sends[k].call].at + 2000
            /\ sends[k].payload = calls[sends[k].call].payload
    /\ \A j, k \in 1..Len(sends) : j < k => sends[j].call < sends[k].call

\* a send failed, and the next request was the firing of a call made after the failure
C15_Witness ==
    \E j, k \in 1..Len(sends) :
        /\ k = j + 1
        /\ sends[j].outcome = "false" /\ sends[j].done # NoTime
        /\ sends[k].requested
        /\ calls[sends[k].call].at >= sends[j].done
        /\ sends[k].call > sends[j].call

\* a send fails in this step: its result goes from pending to false
SendFails == \E k \in 1..Len(sends) : sends[k].outcome = "pending" /\ sends'[k].outcome = "false"
\* call i of the debounced function is scheduled or was attempted at its due time
Scheduled(i) ==
    \/ \E t \in PendingDebounce : t.call = i /\ t.due = calls[i].at + 2000
    \/ \E k \in 1..Len(sends) :
            sends[k].call = i /\ sends[k].at = calls[i].at + 2000 /\ sends[k].requested

\* C16: a step in which a delivery fails (network error or non-2xx) changes neither the
\* editor's code and language nor the debouncer and its configuration, and whatever
\* failed before, every edit calls the debouncer and the latest call is scheduled for,
\* or was attempted at, the debounce delay after it.
C16_FailureDoesNotBreakEditing ==
    /\ [][SendFails => UNCHANGED <<code, language, enabled, timeoutId, timers, calls>>]_vars
    /\ [](calls # <<>> => Scheduled(Len(calls)))
    /\ []((enabled /\ page # "closed") => Len(calls) = edits + 1)

\* a send was lost, an edit made after that was delivered at its due time, and the
\* editor holds the code of that edit
C16_Witness ==
    \E j, k \in 1..Len(sends) :
        /\ j < k
        /\ sends[j].outcome = "false" /\ ~sends[j].arrived /\ sends[j].done # NoTime
        /\ calls[sends[k].call].at >= sends[j].done
        /\ sends[k].at = calls[sends[k].call].at + 2000
        /\ sends[k].outcome = "true"
        /\ code = sends[k].payload.code /\ code # sends[j].payload.code

\* the burst ending with the last call has been delivered: sendCodeUpdate was invoked
\* with its payload when its delay ran out
LastDraftSent ==
    \E k \in 1..Len(sends) :
        /\ sends[k].call = Len(calls)
        /\ sends[k].at = calls[Len(calls)].at + WEBHOOK_DEBOUNCE_DELAY
        /\ sends[k].payload = calls[Len(calls)].payload
\* timer t is run by this step: its callback invokes sendCodeUpdate
Fires(t) ==
    /\ now = t.due
    /\ Len(sends') = Len(sends) + 1
    /\ sends'[Len(sends')].call = t.call

\* C31: a scheduled delivery leaves the timer queue only by running or by a later call
\* of the debouncer: no completed or failed send, status change, effect cleanup or
\* unmount of the editor (the page is left for the report) cancels it; so the last
\* draft is pending until, and sent when, the delay W after the last edit has passed.
C31_OnlyANewCallCancels ==
    /\ [][\A t \in PendingDebounce :
            t \notin timers' => (Fires(t) \/ Len(calls') = Len(calls) + 1)]_vars
    /\ [](calls # <<>> => Scheduled(Len(calls)))
    /\ []((calls # <<>> /\ now > calls[Len(calls)].at + WEBHOOK_DEBOUNCE_DELAY)
            => LastDraftSent)

\* the editor was unmounted after an edit, its status timers are cleared, and the
\* delivery of the last draft is still scheduled on the report page
C31_Witness ==
    /\ page = "report"
    /\ edits > 0
    /\ effectTimers = {} /\ timers = PendingDebounce
    /\ \E t \in timers :
            /\ t.id = timeoutId /\ t.call = Len(calls)
            /\ t.payload.code = code
            /\ t.due = calls[Len(calls)].at + WEBHOOK_DEBOUNCE_DELAY

\* a draft is on its way to the store: requested by sendCodeUpdate and not yet settled
InFlight == {k \in 1..Len(sends) : sends[k].requested /\ sends[k].outcome = "pending"}

\* C36: when the report page looks up the snapshot after the candidate edited and
\* finished, no draft is pending in the debouncer or on its way to the store, and the
\* snapshot the lookup returns carries the code the editor held at the finish.
C36_LookupSeesFinalCode ==
    [][(rp.stage = "FetchingSnapshot" /\ rp' # rp /\ edits > 0) =>
            /\ PendingDebounce = {}
            /\ InFlight = {}
            /\ rp'.codeResponse.status = 200
            /\ rp'.codeResponse.code = code]_vars

----------------------------------------------------------------------------
(* SpecLive: the tab of Spec with the webhook enabled and no secret, under  *)
(* the event loop's scheduling: a timer that is due is run, and time       *)
(* passes                                                                  *)

InitLive == Init /\ enabled /\ expectedKey = ""
SpecLive ==
    /\ InitLive /\ [][Next]_vars
    /\ WF_vars(TimerFire)
    /\ WF_vars(\E d \in Delays : Advance(d))

\* the moves of the delivery status the claim allows
StatusMoves ==
    {<<"idle", "sending">>, <<"sending", "sent">>, <<"sending", "error">>,
     <<"sent", "idle">>, <<"error", "idle">>, <<"sent", "sending">>,
     <<"error", "sending">>}
\* the status shows a result and the editor is mounted
ShowsResult == webhookStatus \in {"sent", "error"} /\ page = "home"

\* C17: the delivery status only moves idle -> sending -> sent or error -> idle, or
\* back to sending on a new edit; while it shows sent or error a timer is pending that
\* moves it on within the display interval of 1000 ms, and it does leave sent or error
\* (as long as the modelled time has 1000 ms left).
C17_StatusCycle ==
    /\ [][webhookStatus' # webhookStatus => <<webhookStatus, webhookStatus'>> \in StatusMoves]_vars
    /\ [](ShowsResult =>
            \E t \in timers : /\ t.id \in effectTimers
                              /\ \/ t.kind = "idle" /\ t.due <= now + 1000
                                 \/ t.kind = "sending" /\ t.due <= now)
    /\ (ShowsResult /\ now + 1000 <= Horizon) ~> ~ShowsResult

\* the status went from sent back to idle with no edit in between: the timers of the
\* latest effect have all run
C17_Witness ==
    /\ page = "home"
    /\ webhookStatus = "idle"
    /\ calls # <<>>
    /\ now = calls[Len(calls)].at + 3500
    /\ effectTimers \cap {t.id : t \in timers} = {}

----------------------------------------------------------------------------
(* Properties of the transcript endpoint (SpecTranscript) *)

\* the endpoint has answered a request
Exchanged == tx.answer.status # 0
ProviderFailed(r) == r.kind = "response" /\ ~Ok(r.status)
\* the provider's answer to the detail call the handler made
DetailCalled == Len(tx.answer.calls) = 2
DetailAnswer == tx.detail[tx.answer.calls[2]]
\* the provider lists no conversation
ListsNone ==
    /\ tx.list.kind = "response" /\ Ok(tx.list.status)
    /\ \/ tx.list.json.kind = "null"
       \/ /\ tx.list.json.kind = "object"
          /\ \/ tx.list.json.conversations.kind = "absent"
             \/ tx.list.json.conversations.items = <<>>

\* C28: with a provider key configured, when the conversation-list call or the
\* conversation-detail call gets a non-success response from the provider, the endpoint
\* answers with that same status and the provider's error text as details, and returns
\* no transcript; after a failed list call no detail call is made.
C28_UpstreamStatusIsPassedOn ==
    (Exchanged /\ elevenLabsApiKey) =>
        /\ ProviderFailed(tx.list) =>
                /\ tx.answer.status = tx.list.status
                /\ tx.answer.error = "Failed to fetch conversations"
                /\ tx.answer.details = tx.list.text
                /\ ~tx.answer.hasTranscript /\ tx.answer.transcript = <<>>
                /\ tx.answer.calls = <<"list">>
        /\ (DetailCalled /\ ProviderFailed(DetailAnswer)) =>
                /\ tx.answer.status = DetailAnswer.status
                /\ tx.answer.error = "Failed to fetch transcript"
                /\ tx.answer.details = DetailAnswer.text
                /\ ~tx.answer.hasTranscript /\ tx.answer.transcript = <<>>

\* the detail call for the latest of two conversations was answered 404, and so was
\* the request
C28_Witness ==
    /\ DetailCalled /\ tx.answer.calls[2] = "c2"
    /\ Len(tx.list.json.conversations.items) = 2
    /\ tx.list.json.conversations.items[1].conversation_id = "c1"
    /\ DetailAnswer.status = 404 /\ tx.detail["c1"].status = 200
    /\ tx.answer.status = 404
    /\ tx.answer.details = "conversation not found"

\* C29: with no provider key configured the endpoint answers 500 with the error
\* 'ElevenLabs API key not configured' and calls the provider not at all; with a key,
\* when the provider lists no conversation for the agent, it answers 404 with the error
\* 'No conversations found'; in both cases no transcript is returned.
C29_NoKeyAndNoConversation ==
    Exchanged =>
        /\ ~elevenLabsApiKey =>
                /\ tx.answer.status = 500
                /\ tx.answer.error = "ElevenLabs API key not configured"
                /\ tx.answer.calls = <<>>
                /\ ~tx.answer.hasTranscript /\ tx.answer.transcript = <<>>
        /\ (elevenLabsApiKey /\ ListsNone) =>
                /\ tx.answer.status = 404
                /\ tx.answer.error = "No conversations found"
                /\ tx.answer.calls = <<"list">>
                /\ ~tx.answer.hasTranscript /\ tx.answer.transcript = <<>>

\* without a key the endpoint answered 500 although the provider had a conversation
\* with a transcript to give
C29_Witness ==
    /\ ~elevenLabsApiKey
    /\ tx.list.kind = "response" /\ tx.list.status = 200 /\ tx.list.json.kind = "object"
    /\ tx.list.json.conversations.items # <<>>
    /\ tx.detail["c1"].status = 200
    /\ tx.answer.status = 500 /\ tx.answer.calls = <<>>

\* the entries of a formatted transcript: the pieces between its blank lines
Separators(t) == {i \in 1..Len(t) : t[i] = BlankLine}
EntryCount(t) == IF t = <<>> THEN 0 ELSE Cardinality(Separators(t)) + 1
SeparatorAt(t, k) ==
    IF k = 0 THEN 0
    ELSE IF k > Cardinality(Separators(t)) THEN Len(t) + 1
    ELSE CHOOSE i \in Separators(t) : Cardinality({j \in Separators(t) : j <= i}) = k
EntryAt(t, k) == SubSeq(t, SeparatorAt(t, k - 1) + 1, SeparatorAt(t, k) - 1)
\* the provider answered the detail call with the turns of the conversation
TurnsGiven ==
    /\ Exchanged /\ DetailCalled
    /\ DetailAnswer.kind = "response" /\ Ok(DetailAnswer.status)
    /\ DetailAnswer.json.kind = "object" /\ DetailAnswer.json.transcript.kind = "array"
Turns == DetailAnswer.json.transcript.items

\* C33: the transcript the endpoint returns has one entry per turn of the selected
\* conversation, in the order of the turns, separated by blank lines; the entry of a
\* turn is its speaker, ": " and its message (nothing for a turn without one), and the
\* speaker is Candidate exactly when the role is user, Interviewer otherwise
C33_OneEntryPerTurn ==
    TurnsGiven =>
        /\ tx.answer.status = 200 /\ tx.answer.hasTranscript
        /\ EntryCount(tx.answer.transcript) = Len(Turns)
        /\ \A k \in 1..Len(Turns) :
                LET entry == EntryAt(tx.answer.transcript, k) IN
                /\ Len(entry) >= 2
                /\ entry[1] \in {"Candidate", "Interviewer"}
                /\ entry[1] = "Candidate" <=> Turns[k].role = "user"
                /\ entry[2] = ": "
                /\ IF Turns[k].message \in {Absent, ""} THEN Len(entry) = 2
                   ELSE entry = <<entry[1], ": ", Turns[k].message>>
\* three turns, the second one the candidate's, without words
C33_Witness ==
    /\ TurnsGiven /\ Len(Turns) = 3
    /\ Turns[1].role = "agent" /\ Turns[2].role = "user" /\ Turns[3].role = "agent"
    /\ Turns[2].message = ""
    /\ tx.answer.transcript =
            <<"Interviewer", ": ", Turns[1].message, BlankLine, "Candidate", ": ", BlankLine,
              "Interviewer", ": ", Turns[3].message>>

----------------------------------------------------------------------------
(* Properties of the report pipeline (SpecReport) *)

\* the EvaluationReport invariants, on a parsed report r: the members at the top
\* level of the object and the members of its grades object
TopLevel(r) == {r[i] : i \in {j \in 2..Len(r) : Depth(r, j - 1) = 1}} \ {"{", "}"}
Criteria(r) ==
    {r[i] : i \in {j \in 2..Len(r) : Depth(r, j - 1) = 2 /\ IndexOf(r, "G") # 0
                                       /\ IndexOf(r, "G") < j}} \ {"{", "}"}
RequiredKeys(r) == {"S", "G", "T", "I", "W"} \subseteq TopLevel(r) /\ TopLevel(r) \cap {"R", "Q"} # {}
RecommendationValid(r) == "Q" \notin TopLevel(r)
GradesValid(r) == Criteria(r) = {"C", "M", "A"}

\* the pipeline has finished with an answer of the endpoint that came from a text of
\* the generator
Answered == rp.stage \in {"Done", "Failed"} /\ rp.answer.generatorCalled /\ rp.generator.kind # "throws"
ResponseText == IF rp.generator.kind = "text" THEN rp.generator.text ELSE <<>>

\* C7: the pipeline is Done only with a report that has the three criteria codingSkills,
\* communication and algorithmicThinking, each with an integer score in 1..10; a
\* response whose object lacks a criterion or has a score of 0 or 11 ends in Failed
C7_DoneOnlyWithValidGrades == rp.stage = "Done" => GradesValid(rp.report)

\* C8: the endpoint never returns as a report an object whose recommendation is outside
\* Strong Hire, Hire, Maybe, No Hire or that lacks a required key
C8_ReturnedReportHasKeysAndEnum ==
    (Answered /\ rp.answer.status = 200) =>
        RequiredKeys(rp.answer.report) /\ RecommendationValid(rp.answer.report)

\* C9: for a response that is the object alone, the object in a fenced block, or the
\* object with prose before and/or after it, the extracted text is exactly the object
C9_ExtractionIsExact ==
    (Answered /\ rp.generator.shape \in {"pure", "fenced", "prose"}) =>
        rp.answer.extractedJson = rp.generator.object

\* C32: extraction takes the content of the first fenced block tagged json, else of the
\* first fenced block without a tag, else the whole response, trimmed; the candidate is
\* the span from the first "{" to the last "}" of that text; without a "{", or without a
\* "}" after the first "{", the answer is the parse error and nothing is handed to
\* JSON.parse
ScannedText ==
    IF FenceMatch(ResponseText, JsonTag).matched
    THEN Trim(FenceMatch(ResponseText, JsonTag).group)
    ELSE IF FenceMatch(ResponseText, <<>>).matched
    THEN Trim(FenceMatch(ResponseText, <<>>).group)
    ELSE Trim(ResponseText)
HasSpan ==
    /\ IndexOf(ScannedText, "{") # 0
    /\ LastIndexOf(ScannedText, "}") > IndexOf(ScannedText, "{")
C32_ExtractionOrder ==
    Answered =>
        IF HasSpan
        THEN rp.answer.extractedJson =
                SubSeq(ScannedText, IndexOf(ScannedText, "{"), LastIndexOf(ScannedText, "}"))
        ELSE /\ rp.answer.extractedJson = <<>>
             /\ rp.answer.status = 500
             /\ rp.answer.error = "Failed to parse report"
             /\ rp.answer.report = NoReport
C32_Witness ==
    /\ Answered /\ rp.stage = "Done"
    /\ FenceMatch(ResponseText, JsonTag).matched /\ FenceMatch(ResponseText, <<>>).matched
    /\ FenceMatch(ResponseText, <<>>).group # FenceMatch(ResponseText, JsonTag).group
    /\ rp.answer.extractedJson = rp.generator.object

\* C10: when the extracted candidate does not parse as JSON the endpoint answers 500,
\* with the first PreviewLen characters of the response text (the whole text when it is
\* shorter) as rawResponse and without a report, and the page shows no report
C10_ParseFailureKeepsPreview ==
    (Answered /\ ~JsonParse(rp.answer.extractedJson).ok) =>
        /\ rp.answer.status = 500
        /\ rp.answer.error = "Failed to parse report"
        /\ rp.answer.report = NoReport
        /\ Len(rp.answer.rawResponse) = Min({Len(ResponseText), 1000})
        /\ rp.answer.rawResponse = SubSeq(ResponseText, 1, Len(rp.answer.rawResponse))
        /\ rp.stage = "Failed"
        /\ rp.report = NoReport
\* a candidate was found between braces, it did not parse, and the response was longer
\* than the preview
C10_Witness ==
    /\ Answered
    /\ rp.answer.extractedJson # <<>>
    /\ ~JsonParse(rp.answer.extractedJson).ok
    /\ Len(ResponseText) > 1000
    /\ Len(rp.answer.rawResponse) = 1000
    /\ rp.stage = "Failed"

\* the stages a stage may be left for
NextStages(stage) ==
    CASE stage = "FetchingSnapshot" -> {"FetchingTranscript", "Failed"}
      [] stage = "FetchingTranscript" -> {"Synthesizing", "Failed"}
      [] stage = "Synthesizing" -> {"Done", "Failed"}
      [] OTHER -> {}
Terminal == rp.stage \in {"Done", "Failed"}

\* C22: for one finish action the pipeline visits its stages only in the order
\* FetchingSnapshot, FetchingTranscript, Synthesizing, each at most once (every step of
\* the pipeline leaves the stage it was in for a later one, and a terminal state is
\* never left), and ends in one terminal state: Done with a report and no error, or
\* Failed with an error and no report; it is loading exactly until then, and never
\* holds both a report and an error.
C22_StagesInOrder ==
    /\ [][rp' # rp => rp'.stage \in NextStages(rp.stage)]_vars
    /\ [](rp.stage = "Done" => rp.report # NoReport /\ rp.error = "" /\ ~rp.loading)
    /\ [](rp.stage = "Failed" => rp.error # "" /\ rp.report = NoReport /\ ~rp.loading)
    /\ [](~Terminal => rp.loading /\ rp.report = NoReport /\ rp.error = "")

\* the pipeline went through the three stages and is Done, with a snapshot found
C22_Witness ==
    /\ rp.stage = "Done"
    /\ rp.codeData.status = 200
    /\ rp.transcript # <<>>
    /\ rp.answer.status = 200
    /\ rp.report # NoReport /\ ~rp.loading

\* the transcript endpoint answered, and its answer is a failure or carries no or an
\* empty transcript
TranscriptUnavailable ==
    /\ rp.transcriptData.status # 0
    /\ \/ ~Ok(rp.transcriptData.status)
       \/ ~rp.transcriptData.hasTranscript
       \/ rp.transcriptData.transcript = <<>>
GeneratorNotInvoked ==
    rp.generator = NoGenerator /\ rp.answer.status = 0 /\ ~rp.answer.generatorCalled

\* C23: when the transcript cannot be obtained (the transcript endpoint answers
\* non-success, or its answer carries no or an empty transcript, or the request to it
\* fails), the pipeline is Failed and the generate-report endpoint and the generator
\* have not been invoked; the page holds the answer the endpoint gave.
C23_NoTranscriptIsFatal ==
    /\ rp.stage \in {"Synthesizing", "Done"} => rp.transcriptData = tx.answer
    /\ TranscriptUnavailable =>
            rp.transcriptData = tx.answer /\ rp.stage = "Failed" /\ GeneratorNotInvoked
    /\ (rp.stage = "Failed" /\ rp.transcript = <<>>) => GeneratorNotInvoked

\* the endpoint answered 200 with an empty transcript (the latest conversation has no
\* turn) and the pipeline Failed
C23_Witness ==
    /\ rp.transcriptData.status = 200
    /\ rp.transcriptData.hasTranscript /\ rp.transcriptData.transcript = <<>>
    /\ rp.transcriptData.calls = <<"list", "c1">>
    /\ rp.stage = "Failed" /\ rp.error = "No transcript available"

\* the snapshot lookup was not made (no session id) or was answered 404
SnapshotAbsent == rp.sid = NoSession \/ rp.codeResponse.status = 404

\* C24: when the store has no snapshot for the session (the lookup is answered 404) or
\* the tab has no session id, the snapshot step goes on to FetchingTranscript without
\* code data, and the context of Synthesizing and Done is the transcript only.
C24_AbsentSnapshotTolerated ==
    /\ [][(rp.stage = "FetchingSnapshot" /\ rp' # rp
             /\ (rp.sid = NoSession \/ rp'.codeResponse.status = 404))
            => (rp'.stage = "FetchingTranscript" /\ rp'.codeData = NoCodeData)]_vars
    /\ []((SnapshotAbsent /\ rp.stage \in {"Synthesizing", "Done"}) =>
            (rp.fullContext = rp.transcript /\ rp.transcript = tx.answer.transcript
             /\ rp.transcript # <<>>))

\* the lookup was answered 404 and the pipeline is Done
C24_Witness ==
    /\ rp.sid # NoSession /\ rp.codeResponse.status = 404
    /\ rp.stage = "Done"
    /\ rp.report # NoReport
    /\ rp.fullContext = rp.transcript

\* a snapshot with non-empty code was obtained
SnapshotObtained == rp.codeResponse.status = 200 /\ ~Falsy(rp.codeResponse.code)
\* a context was built for the generator
ContextBuilt == rp.transcript # <<>>

\* C25: the context sent to the generator is the transcript text the endpoint returned,
\* followed by the delimited code section (the language, then the whole code of the
\* snapshot the store holds for the session) if and only if a snapshot with non-empty
\* code was obtained; the transcript comes first, unaltered, in both cases.
C25_ContextIsTranscriptThenCode ==
    ContextBuilt =>
        /\ rp.transcript = tx.answer.transcript
        /\ SubSeq(rp.fullContext, 1, Len(rp.transcript)) = rp.transcript
        /\ rp.fullContext =
                IF SnapshotObtained
                THEN rp.transcript
                     \o <<"\n\n--- Code Written During Interview ---\nLanguage: ",
                          codeStore[rp.sid].language, "\n\n", codeStore[rp.sid].code>>
                ELSE rp.transcript

\* a context with the code section was sent and the pipeline is Done
C25_Witness ==
    /\ rp.stage = "Done"
    /\ SnapshotObtained
    /\ Len(rp.fullContext) = Len(rp.transcript) + 4
    /\ rp.fullContext[Len(rp.fullContext)] = codeStore[rp.sid].code

\* the generate-report endpoint has answered a request
Generated == gx.answer.status # 0

\* C30: the generate-report endpoint answers 500 with the error 'Anthropic API key not
\* configured' when no generator key is configured, and, with a key, 400 when the
\* request carries no transcript (none or an empty one); in both cases the generator
\* is not invoked and no report is returned; a 200 answer always carries a report.
C30_NoKeyAndNoTranscript ==
    Generated =>
        /\ ~anthropicApiKey =>
                /\ gx.answer.status = 500
                /\ gx.answer.error = "Anthropic API key not configured"
                /\ ~gx.answer.generatorCalled /\ gx.answer.report = NoReport
        /\ (anthropicApiKey /\ gx.transcript \in {<<>>, <<"">>}) =>
                /\ gx.answer.status = 400
                /\ gx.answer.error = "Transcript is required"
                /\ ~gx.answer.generatorCalled /\ gx.answer.report = NoReport
        /\ gx.answer.status = 200 =>
                /\ gx.answer.report # NoReport
                /\ gx.answer.error = ""
                /\ gx.answer.generatorCalled

\* with a key, a request with an empty transcript was answered 400 although the
\* generator had a full report to give
C30_Witness ==
    /\ anthropicApiKey
    /\ gx.transcript = <<"">>
    /\ gx.generator.kind = "text" /\ gx.generator.text = FullReport
    /\ gx.answer.status = 400

\* C37: no outcome of the FetchingSnapshot stage makes the pipeline Failed: whatever
\* the lookup is answered, and also when the request fails with a network error, the
\* pipeline goes on to FetchingTranscript; it becomes Failed only from
\* FetchingTranscript or Synthesizing.
C37_SnapshotStageNeverFails ==
    [][(rp.stage = "FetchingSnapshot" /\ rp' # rp) => rp'.stage = "FetchingTranscript"]_vars

----------------------------------------------------------------------------
(* Properties of sendCodeUpdate (SpecSend) *)

\* C14: an invocation of sendCodeUpdate issues at most one request, and once it has
\* returned, its result is true exactly when that request got a 2xx response; it is
\* false for a non-2xx response, a network error and a disabled or URL-less
\* configuration.
C14_TrueExactlyOn2xx ==
    \A k \in 1..Len(sends) :
        sends[k].outcome # "pending" =>
            (sends[k].outcome = "true"
                <=> (sends[k].requested /\ sends[k].arrived /\ Ok(sends[k].status)))

====
